---- MODULE Spec2Model ----
(***************************************************************************)
(* A model of the batch-script debugger: the preprocessor (caret joining,  *)
(* block annotation, physical<->logical map), the debug context, the shell *)
(* session's sentinel protocol and the interpreter loops (interactive and  *)
(* DAP).  Text is modelled as sequences of one-character strings; indices  *)
(* are zero-based as in the source, so physical[i] of the source is        *)
(* physical[i + 1] here.                                                   *)
(***************************************************************************)
EXTENDS Integers, Sequences, FiniteSets, TLC

VARIABLES
    \* ---- preprocessor (src/parser/preprocessor.rs)
    cmd_line,          \* the line handed to split_composite_command
    cmd_parts,         \* the parts it returned
    physical,          \* the physical lines handed to the preprocessor
    pre_pc,            \* which function has been applied so far
    joined,            \* result of join_continued_lines
    logical,           \* result of annotate_blocks
    final_depth,       \* annotate_blocks' local `depth` after the last line
    pre_result,        \* result of preprocess_lines (or the panic)
    \* ---- DebugContext (src/debugger/context.rs)
    variables,         \* global variable map: name -> value
    call_stack,        \* sequence of frames, last = innermost
    last_exit_code,
    breakpoints,       \* Breakpoints.points
    mode,              \* RunMode
    step_out_target_depth,
    continue_requested,
    \* ---- history of the calls made on the context
    bp_last_op,        \* per logical index: the last breakpoint call made on it
    scope_phase,       \* where a SETLOCAL .. ENDLOCAL sequence stands
    scope_snap,        \* what was visible when handle_setlocal was called
    \* ---- CmdSession and its child shell (src/debugger/session.rs, src/main.rs)
    sess_impl,         \* which CmdSession::run is in use: "debugger" or "main"
    child_alive,       \* the child process has not ended
    child_stdin,       \* the lines written to the child so far
    child_pending,     \* lines the child is still going to write
    child_stdout,      \* lines written by the child and not yet read
    run_pc,            \* position of the current call of run
    run_cmd,           \* its argument
    output,            \* its local `output`
    exit_code,         \* its local `exit_code`
    found_blank,       \* its local `found_blank`
    collecting,        \* its local `collecting`
    elapsed,           \* start.elapsed() > timeout
    run_result,        \* what the call returned
    run_count,         \* number of calls of run made so far
    consumed,          \* history: the sentinel lines read by the current call
    \* ---- interpreter loop (src/executor/runner.rs, src/executor/dap_runner.rs)
    runner,            \* "interactive" (run_debugger) or "dap" (run_debugger_dap)
    run_state,         \* "running", "stopped" (at the prompt / waiting) or "done"
    loop_pc,           \* the local `pc` of the loop
    step_depth,        \* Option<usize>: NoDepth for None
    labels_phys,       \* label -> physical index
    run_end,           \* why the loop was left
    last_reach,        \* history: the last non-skipped line reached since the last resume
    last_resume,       \* history: the mode and depth at the last resume from a stop
    last_exec,         \* history: what the last dispatched line sent to the session
    \* the DAP channels (src/dap/mod.rs, src/dap/server.rs)
    output_channel,    \* interpreter -> coordinator: output strings in flight
    event_channel,     \* interpreter -> coordinator: (reason, line) events in flight
    editor,            \* the events the coordinator has sent to the editor, in order
    coord_pc,          \* the coordinator's position in handle_launch / run_dap_mode
    coord_events,      \* the local `events` of the run_dap_mode loop
    interp_pc,         \* the interpreter thread: "running", "waiting" or "done"
    stops_published,   \* number of stop events the interpreter has published
    outputs_published  \* number of output strings the interpreter has published

preVars == <<physical, pre_pc, joined, logical, final_depth, pre_result, cmd_line, cmd_parts>>
ctxVars == <<variables, call_stack, last_exit_code, breakpoints, mode,
             step_out_target_depth, continue_requested>>
histVars == <<bp_last_op, scope_phase, scope_snap>>

sessVars == <<sess_impl, child_alive, child_stdin, child_pending, child_stdout, run_pc,
              run_cmd, output, exit_code, found_blank, collecting, elapsed, run_result,
              run_count, consumed>>
dapVars == <<output_channel, event_channel, editor, coord_pc, coord_events, interp_pc,
             stops_published, outputs_published>>
runVars == <<runner, run_state, loop_pc, step_depth, labels_phys, run_end, last_reach,
             last_resume, last_exec, dapVars>>

vars == <<preVars, ctxVars, histVars, sessVars, runVars>>

(***************************************************************************)
(* Text helpers                                                            *)
(***************************************************************************)
DQ == "\""
TAB == "\t"
SP == " "
CR == "\r"
LF == "\n"

\* char::is_whitespace restricted to the characters of the model
is_whitespace(c) == c \in {SP, TAB, CR, LF}

Last(s) == s[Len(s)]
Front(s) == SubSeq(s, 1, Len(s) - 1)

\* str::trim_end_matches([' ', '\t'])
RECURSIVE trim_end_matches(_)
trim_end_matches(s) ==
    IF s # <<>> /\ Last(s) \in {SP, TAB} THEN trim_end_matches(Front(s)) ELSE s

\* str::trim_start / trim_end / trim
RECURSIVE trim_start(_)
trim_start(s) ==
    IF s # <<>> /\ is_whitespace(Head(s)) THEN trim_start(Tail(s)) ELSE s

RECURSIVE trim_end(_)
trim_end(s) ==
    IF s # <<>> /\ is_whitespace(Last(s)) THEN trim_end(Front(s)) ELSE s

trim(s) == trim_end(trim_start(s))

\* str::to_uppercase on the letters of the model
LowerLetters == <<"a", "b", "c", "d", "e", "f", "g", "h", "i", "j", "k", "l", "m",
                  "n", "o", "p", "q", "r", "s", "t", "u", "v", "w", "x", "y", "z">>
UpperLetters == <<"A", "B", "C", "D", "E", "F", "G", "H", "I", "J", "K", "L", "M",
                  "N", "O", "P", "Q", "R", "S", "T", "U", "V", "W", "X", "Y", "Z">>
char_to_uppercase(c) ==
    IF \E i \in 1 .. Len(LowerLetters) : LowerLetters[i] = c
    THEN UpperLetters[CHOOSE i \in 1 .. Len(LowerLetters) : LowerLetters[i] = c]
    ELSE c
char_to_lowercase(c) ==
    IF \E i \in 1 .. Len(UpperLetters) : UpperLetters[i] = c
    THEN LowerLetters[CHOOSE i \in 1 .. Len(UpperLetters) : UpperLetters[i] = c]
    ELSE c
to_uppercase(s) == [i \in 1 .. Len(s) |-> char_to_uppercase(s[i])]
to_lowercase(s) == [i \in 1 .. Len(s) |-> char_to_lowercase(s[i])]

\* str::starts_with / ends_with / contains(char) / find(char) (0-based, -1 for None)
starts_with(s, prefix) ==
    Len(s) >= Len(prefix) /\ SubSeq(s, 1, Len(prefix)) = prefix
ends_with(s, suffix) ==
    Len(s) >= Len(suffix) /\ SubSeq(s, Len(s) - Len(suffix) + 1, Len(s)) = suffix
contains_char(s, c) == \E i \in 1 .. Len(s) : s[i] = c
find_char(s, c) ==
    IF contains_char(s, c)
    THEN (CHOOSE i \in 1 .. Len(s) : s[i] = c /\ \A j \in 1 .. i - 1 : s[j] # c) - 1
    ELSE -1

\* &s[from..] and &s[from..to] with 0-based byte offsets
slice_from(s, from) == SubSeq(s, from + 1, Len(s))
slice(s, from, to) == SubSeq(s, from + 1, to)

(***************************************************************************)
(* join_continued_lines                                                    *)
(***************************************************************************)
\* the `for ch in det.chars().rev()` loop counting trailing carets
RECURSIVE caret_count(_)
caret_count(det) ==
    IF det # <<>> /\ Last(det) = "^" THEN 1 + caret_count(Front(det)) ELSE 0

\* det.chars().rev().find(|c| !c.is_whitespace()): "none" when there is none
RECURSIVE last_non_whitespace(_)
last_non_whitespace(det) ==
    IF det = <<>> THEN "none"
    ELSE IF is_whitespace(Last(det)) THEN last_non_whitespace(Front(det))
    ELSE Last(det)

continues_mut_any_caret(line) ==
    LET det == trim_end_matches(line)
    IN  det # <<>> /\ last_non_whitespace(det) = "^" /\ caret_count(det) >= 1

\* the `continues` flag of one physical line
continues(line) ==
    LET det == trim_end_matches(line)
    IN  /\ det # <<>>
        /\ last_non_whitespace(det) = "^"
        /\ caret_count(det) % 2 = 1

\* the text a physical line contributes: cut at det_len - 1 when it continues
trimmed_without_one_caret(line) ==
    LET det == trim_end_matches(line)
    IN  IF continues(line) THEN SubSeq(line, 1, Len(det) - 1) ELSE line

\* the inner `loop` of join_continued_lines, from physical index i with buffer buf;
\* yields the index the loop leaves in i and the buffer
RECURSIVE join_inner(_, _, _)
join_inner(phys, i, buf) ==
    LET line  == phys[i + 1]
        piece == trimmed_without_one_caret(line)
        buf2  == IF buf = <<>> THEN piece ELSE buf \o <<SP>> \o piece
    IN  IF continues(line)
        THEN IF i + 1 >= Len(phys)
             THEN [i |-> i + 1, buf |-> buf2]
             ELSE join_inner(phys, i + 1, buf2)
        ELSE [i |-> i, buf |-> buf2]

\* the outer `while i < physical.len()` loop
RECURSIVE join_outer(_, _, _)
join_outer(phys, i, out) ==
    IF i >= Len(phys) THEN out
    ELSE LET r == join_inner(phys, i, <<>>)
         IN  join_outer(phys, r.i + 1,
                        Append(out, [text |-> r.buf, phys_start |-> i, phys_end |-> r.i]))

join_continued_lines(phys) == join_outer(phys, 0, <<>>)

(***************************************************************************)
(* annotate_blocks and paren_delta                                         *)
(***************************************************************************)
\* the `while let Some(ch) = chars.next()` loop over one joined line;
\* st = [depth, group_id_stack, next_group_id], k the 1-based position
RECURSIVE annotate_chars(_, _, _, _)
annotate_chars(text, k, escaped, st) ==
    IF k > Len(text) THEN st
    ELSE LET ch == text[k]
         IN  IF escaped THEN annotate_chars(text, k + 1, FALSE, st)
             ELSE IF ch = "^" THEN annotate_chars(text, k + 1, TRUE, st)
             ELSE IF ch = "(" THEN
                 annotate_chars(text, k + 1, FALSE,
                     [depth |-> st.depth + 1,
                      group_id_stack |-> Append(st.group_id_stack, st.next_group_id),
                      next_group_id |-> st.next_group_id + 1])
             ELSE IF ch = ")" THEN
                 annotate_chars(text, k + 1, FALSE,
                     [depth |-> IF st.depth > 0 THEN st.depth - 1 ELSE st.depth,
                      group_id_stack |-> IF st.group_id_stack = <<>> THEN <<>>
                                         ELSE Front(st.group_id_stack),
                      next_group_id |-> st.next_group_id])
             ELSE annotate_chars(text, k + 1, FALSE, st)

\* the `for j in joined` loop; acc = [logical, st]
RECURSIVE annotate_lines(_, _, _)
annotate_lines(js, n, acc) ==
    IF n > Len(js) THEN acc
    ELSE LET j   == js[n]
             st  == acc.st
             ll  == [text |-> j.text, phys_start |-> j.phys_start, phys_end |-> j.phys_end,
                     group_id |-> IF st.group_id_stack = <<>> THEN 0
                                  ELSE Last(st.group_id_stack),
                     group_depth |-> IF st.depth > 0 THEN st.depth ELSE 0]
         IN  annotate_lines(js, n + 1,
                 [logical |-> Append(acc.logical, ll),
                  st |-> annotate_chars(j.text, 1, FALSE, st)])

annotate_run(js) ==
    annotate_lines(js, 1,
        [logical |-> <<>>,
         st |-> [depth |-> 0, group_id_stack |-> <<>>, next_group_id |-> 1]])

\* group_id 0 stands for None (ids start at 1)
annotate_blocks(js) == annotate_run(js).logical

\* runner.rs: net parenthesis delta of a line, honouring quotes and ^ escapes
RECURSIVE paren_delta_from(_, _, _, _)
paren_delta_from(line, k, in_quotes, escaped) ==
    IF k > Len(line) THEN 0
    ELSE LET ch == line[k]
         IN  IF escaped THEN paren_delta_from(line, k + 1, in_quotes, FALSE)
             ELSE IF ch = "^" THEN paren_delta_from(line, k + 1, in_quotes, TRUE)
             ELSE IF ch = DQ THEN paren_delta_from(line, k + 1, ~in_quotes, FALSE)
             ELSE (IF ~in_quotes /\ ch = "(" THEN 1
                   ELSE IF ~in_quotes /\ ch = ")" THEN -1 ELSE 0)
                  + paren_delta_from(line, k + 1, in_quotes, FALSE)

paren_delta(line) == paren_delta_from(line, 1, FALSE, FALSE)

(***************************************************************************)
(* preprocess_lines                                                        *)
(***************************************************************************)
\* a fill that writes only the first physical index of each span
RECURSIVE map_fill_mut_start_only(_, _, _)
map_fill_mut_start_only(js, li, m) ==
    IF li >= Len(js) THEN [panicked |-> FALSE, map |-> m]
    ELSE LET j == js[li + 1]
         IN  IF j.phys_end >= Len(m)
             THEN [panicked |-> TRUE, map |-> m]
             ELSE map_fill_mut_start_only(js, li + 1,
                      [p \in 1..Len(m) |-> IF p - 1 = j.phys_start THEN li ELSE m[p]])

\* the nested loops writing phys_to_logical[p] = li; an index p >= physical.len()
\* is Rust's index-out-of-bounds panic
RECURSIVE map_fill(_, _, _)
map_fill(js, li, m) ==
    IF li >= Len(js) THEN [panicked |-> FALSE, map |-> m]
    ELSE LET j == js[li + 1]
         IN  IF j.phys_end >= Len(m)
             THEN [panicked |-> TRUE, map |-> m]
             ELSE map_fill(js, li + 1,
                      [p \in 1..Len(m) |->
                          IF j.phys_start <= p - 1 /\ p - 1 <= j.phys_end THEN li ELSE m[p]])

preprocess_lines(phys) ==
    LET js   == join_continued_lines(phys)
        lg   == annotate_blocks(js)
        fill == map_fill(js, 0, [p \in 1..Len(phys) |-> 0])
    IN  IF fill.panicked
        THEN [panicked |-> TRUE, logical |-> <<>>, phys_to_logical |-> <<>>]
        ELSE [panicked |-> FALSE, logical |-> lg, phys_to_logical |-> fill.map]

(***************************************************************************)
(* DebugContext: construction                                              *)
(***************************************************************************)
EmptyMap == <<>>

\* HashMap::insert
map_insert(m, k, v) == [x \in DOMAIN m \cup {k} |-> IF x = k THEN v ELSE m[x]]

\* HashMap::extend: the entries of `over` replace those of m
map_extend(m, over) ==
    [x \in DOMAIN m \cup DOMAIN over |-> IF x \in DOMAIN over THEN over[x] ELSE m[x]]

\* Option<Vec<String>>
None_args == [some |-> FALSE, vals |-> <<>>]
Some_args(vals) == [some |-> TRUE, vals |-> vals]

\* Frame::new
Frame_new(return_pc, args) ==
    [return_pc |-> return_pc, args |-> args, locals |-> EmptyMap, has_setlocal |-> FALSE]

\* DebugContext::new
CtxNew ==
    /\ variables = EmptyMap
    /\ call_stack = <<>>
    /\ last_exit_code = 0
    /\ breakpoints = {}
    /\ mode = "Continue"
    /\ step_out_target_depth = 0
    /\ continue_requested = FALSE

\* logical indices on which breakpoint calls are made, and the deepest call stack
MaxBpLine == 2
MaxDepth == 3
BpLines == 0 .. MaxBpLine

NoSnap == [visible |-> EmptyMap, globals |-> EmptyMap]

\* no call has been made on the context yet
HistNew ==
    /\ bp_last_op = [l \in BpLines |-> "none"]
    /\ scope_phase = "none"
    /\ scope_snap = NoSnap

\* the context specifications do not run the preprocessor
PreIdle ==
    /\ physical = <<>>
    /\ pre_pc = "input"
    /\ joined = <<>>
    /\ logical = <<>>
    /\ final_depth = 0
    /\ pre_result = [panicked |-> FALSE, logical |-> <<>>, phys_to_logical |-> <<>>]
    /\ cmd_line = <<>>
    /\ cmd_parts = <<>>

\* no call of CmdSession::run has been made
NoRunResult == [kind |-> "none", path |-> "none", output |-> <<>>, code |-> 0]
SessIdle ==
    /\ sess_impl = "debugger"
    /\ child_alive = TRUE
    /\ child_stdin = <<>>
    /\ child_pending = <<>>
    /\ child_stdout = <<>>
    /\ run_pc = "idle"
    /\ run_cmd = <<>>
    /\ output = <<>>
    /\ exit_code = 0
    /\ found_blank = FALSE
    /\ collecting = TRUE
    /\ elapsed = FALSE
    /\ run_result = NoRunResult
    /\ run_count = 0
    /\ consumed = <<>>

\* Option<usize>::None for step_depth
NoDepth == -1
NoReach ==
    [pc |-> 0, mode |-> "none", depth |-> 0, in_breakpoints |-> FALSE, stopped |-> FALSE,
     scope_line |-> FALSE, first |-> FALSE]
NoResume == [mode |-> "none", depth |-> 0, pc |-> 0]
NoExec == [pc |-> 0, line |-> <<>>, parts |-> <<>>, issued |-> <<>>, end |-> "none"]

\* no launch request has been handled: no channel exists yet
DapIdle ==
    /\ output_channel = <<>>
    /\ event_channel = <<>>
    /\ editor = <<>>
    /\ coord_pc = "idle"
    /\ coord_events = <<>>
    /\ interp_pc = "idle"
    /\ stops_published = 0
    /\ outputs_published = 0

\* the interpreter loop has not been entered
RunIdle ==
    /\ runner = "interactive"
    /\ run_state = "idle"
    /\ loop_pc = 0
    /\ step_depth = NoDepth
    /\ labels_phys = <<>>
    /\ run_end = "none"
    /\ last_reach = NoReach
    /\ last_resume = NoResume
    /\ last_exec = NoExec
    /\ DapIdle

(***************************************************************************)
(* Inputs of the preprocessor specification                                *)
(***************************************************************************)
MaxLines == 3

\* physical lines covering: no caret, odd and even caret runs, carets followed
\* by trailing blanks, a caret in mid-line, quoted / escaped / plain parentheses
PreLines ==
    { <<>>,
      <<"a">>,
      <<"a", "^">>,
      <<"a", "^", "^">>,
      <<"a", "^", "^", "^">>,
      <<"a", "^", SP>>,
      <<"a", SP, "^", TAB>>,
      <<"^">>,
      <<"^", "a">>,
      <<"(">>,
      <<")">>,
      <<DQ, "(", DQ>>,
      <<"^", "(">> }

RECURSIVE SeqsUpTo(_, _)
SeqsUpTo(S, n) ==
    IF n = 0 THEN {<<>>}
    ELSE LET shorter == SeqsUpTo(S, n - 1)
         IN  shorter \cup {Append(s, x) : s \in {t \in shorter : Len(t) = n - 1}, x \in S}

PreScripts == SeqsUpTo(PreLines, MaxLines)

NoResult == [panicked |-> FALSE, logical |-> <<>>, phys_to_logical |-> <<>>]

PreInit ==
    /\ physical \in PreScripts
    /\ pre_pc = "input"
    /\ joined = <<>>
    /\ logical = <<>>
    /\ final_depth = 0
    /\ pre_result = NoResult
    /\ cmd_line = <<>>
    /\ cmd_parts = <<>>
    /\ CtxNew
    /\ HistNew
    /\ SessIdle
    /\ RunIdle

CallJoin ==
    /\ pre_pc = "input"
    /\ joined' = join_continued_lines(physical)
    /\ pre_pc' = "joined"
    /\ UNCHANGED <<physical, logical, final_depth, pre_result, cmd_line, cmd_parts, ctxVars, histVars, sessVars, runVars>>

CallAnnotate ==
    /\ pre_pc = "joined"
    /\ logical' = annotate_blocks(joined)
    /\ final_depth' = annotate_run(joined).st.depth
    /\ pre_pc' = "annotated"
    /\ UNCHANGED <<physical, joined, pre_result, cmd_line, cmd_parts, ctxVars, histVars, sessVars, runVars>>

CallPreprocess ==
    /\ pre_pc = "annotated"
    /\ pre_result' = preprocess_lines(physical)
    /\ pre_pc' = IF preprocess_lines(physical).panicked THEN "panic" ELSE "done"
    /\ UNCHANGED <<physical, joined, logical, final_depth, cmd_line, cmd_parts, ctxVars, histVars, sessVars, runVars>>

PreNext == CallJoin \/ CallAnnotate \/ CallPreprocess

SpecPre == PreInit /\ [][PreNext]_vars

(***************************************************************************)
(* Claims about the preprocessor (checked under SpecPre)                   *)
(***************************************************************************)
\* physical indices (zero-based) and the logical lines of a result
PhysIdx == 0 .. Len(physical) - 1
InSpan(ll, p) == ll.phys_start <= p /\ p <= ll.phys_end

\* C6: for every result of preprocess_lines, the spans [phys_start, phys_end] of
\* the logical lines are non-empty, pairwise disjoint and cover every physical
\* index; phys_to_logical[p] = li exactly for the p inside the span of li; and
\* phys_to_logical has one entry per physical line.
C6_SpanBijection ==
    pre_pc = "done" =>
        LET lg == pre_result.logical
            m  == pre_result.phys_to_logical
            LI == 0 .. Len(lg) - 1
        IN  /\ Len(m) = Len(physical)
            /\ \A li \in LI : lg[li + 1].phys_start <= lg[li + 1].phys_end
            /\ \A li1, li2 \in LI : \A p \in PhysIdx :
                   InSpan(lg[li1 + 1], p) /\ InSpan(lg[li2 + 1], p) => li1 = li2
            /\ \A p \in PhysIdx : \E li \in LI : InSpan(lg[li + 1], p)
            /\ \A li \in LI : \A p \in PhysIdx :
                   (m[p + 1] = li) <=> InSpan(lg[li + 1], p)

\* a result with a logical line of several physical lines that is not the first
C6_Witness ==
    /\ pre_pc = "done"
    /\ Len(pre_result.logical) = 2
    /\ pre_result.logical[2].phys_start = 1
    /\ pre_result.logical[2].phys_end = 2

\* C7: the preprocessor never fails: preprocess_lines returns a valid result
\* (one map entry per physical line) for every sequence of physical lines,
\* without panicking or indexing out of range.
C7_NeverFails ==
    pre_pc \in {"done", "panic"} =>
        /\ ~pre_result.panicked
        /\ Len(pre_result.phys_to_logical) = Len(physical)

\* the length of the run of carets that ends a line once its trailing spaces
\* and tabs are ignored (stated without the source's loops)
BlankTail(line, n) == \A k \in n + 1 .. Len(line) : line[k] \in {SP, TAB}
DetLen(line) == CHOOSE n \in 0 .. Len(line) :
                    BlankTail(line, n) /\ (n = 0 \/ line[n] \notin {SP, TAB})
CaretRun(line) ==
    LET n == DetLen(line)
    IN  CHOOSE r \in 0 .. n :
            /\ \A k \in n - r + 1 .. n : line[k] = "^"
            /\ (r = n \/ line[n - r] # "^")
OddCaretTail(line) == CaretRun(line) % 2 = 1

SameJoined(p, q) == \E n \in 1 .. Len(joined) : InSpan(joined[n], p) /\ InSpan(joined[n], q)

\* C8: join_continued_lines puts physical lines p and p+1 in one logical line
\* iff line p ends (ignoring trailing spaces and tabs) in an odd run of carets;
\* joining is transitive (p < q share a logical line iff every line from p to
\* q-1 continues); and a script in which no line ends in a caret yields one
\* logical line per physical line, with the same text.
C8_JoinIffOddCarets ==
    pre_pc = "joined" =>
        /\ \A p \in PhysIdx : \A q \in PhysIdx :
               p < q => (SameJoined(p, q) <=>
                            \A r \in p .. q - 1 : OddCaretTail(physical[r + 1]))
        /\ (\A p \in PhysIdx : CaretRun(physical[p + 1]) = 0) =>
               /\ Len(joined) = Len(physical)
               /\ \A p \in PhysIdx : joined[p + 1].text = physical[p + 1]

\* three physical lines, the first two continuing (one of them with a run of
\* three carets), joined transitively into a single logical line
C8_Witness ==
    /\ pre_pc = "joined"
    /\ Len(physical) = 3
    /\ CaretRun(physical[1]) = 3
    /\ CaretRun(physical[2]) = 1
    /\ Len(joined) = 1
    /\ joined[1].phys_end = 2

RECURSIVE SumDelta(_, _)
SumDelta(lg, n) == IF n = 0 THEN 0 ELSE SumDelta(lg, n - 1) + paren_delta(lg[n].text)

\* the running paren sum (outside quotes and escapes) never drops below zero,
\* so the annotator's clamp at zero has nothing to clamp
NeverNegative(lg) ==
    \A n \in 1 .. Len(lg) : \A k \in 0 .. Len(lg[n].text) :
        SumDelta(lg, n - 1) + paren_delta(SubSeq(lg[n].text, 1, k)) >= 0

\* C9: the sum over all logical lines of the net paren delta (parentheses
\* outside double quotes and caret escapes) equals the depth the block annotator
\* holds after the last line, and is 0 for a balanced script; stated for the
\* scripts whose running sum never goes negative.
C9_DepthConservation ==
    (pre_pc = "annotated" /\ NeverNegative(logical)) =>
        /\ final_depth = SumDelta(logical, Len(logical))
        /\ (SumDelta(logical, Len(logical)) = 0 => final_depth = 0)

(***************************************************************************)
(* DebugContext: breakpoints, run mode, call stack                         *)
(***************************************************************************)
\* Breakpoints::add / remove / contains on the set `points`
Breakpoints_add(points, logical_line) == points \cup {logical_line}

Breakpoints_remove_mut_noop(points, logical_line) == points

Breakpoints_remove(points, logical_line) == points \ {logical_line}
Breakpoints_contains(points, logical_line) == logical_line \in points

\* DebugContext::should_stop_at
should_stop_with(stack, pc) ==
    CASE mode = "Continue" -> Breakpoints_contains(breakpoints, pc)
      [] mode \in {"StepOver", "StepInto"} -> TRUE
      [] mode = "StepOut" -> Len(stack) <= step_out_target_depth

should_stop_at(pc) == should_stop_with(call_stack, pc)

\* usize::saturating_sub(1)
saturating_sub_1_mut_id(n) == n

saturating_sub_1(n) == IF n = 0 THEN 0 ELSE n - 1

HistScopeReset == scope_phase' = "none" /\ scope_snap' = NoSnap

\* DebugContext::add_breakpoint
add_breakpoint(logical_line) ==
    /\ breakpoints' = Breakpoints_add(breakpoints, logical_line)
    /\ bp_last_op' = [bp_last_op EXCEPT ![logical_line] = "add"]
    /\ HistScopeReset
    /\ UNCHANGED <<variables, call_stack, last_exit_code, mode,
                   step_out_target_depth, continue_requested, preVars, sessVars, runVars>>

\* DebugContext::remove_breakpoint
remove_breakpoint(logical_line) ==
    /\ breakpoints' = Breakpoints_remove(breakpoints, logical_line)
    /\ bp_last_op' = [bp_last_op EXCEPT ![logical_line] = "remove"]
    /\ HistScopeReset
    /\ UNCHANGED <<variables, call_stack, last_exit_code, mode,
                   step_out_target_depth, continue_requested, preVars, sessVars, runVars>>

RunModes == {"Continue", "StepOver", "StepInto", "StepOut"}

\* DebugContext::set_mode: assigns the mode and nothing else
set_mode(m) ==
    /\ mode' = m
    /\ HistScopeReset
    /\ UNCHANGED <<variables, call_stack, last_exit_code, breakpoints,
                   step_out_target_depth, continue_requested, bp_last_op, preVars, sessVars, runVars>>

StepTypes == {"continue", "next", "stepOver", "stepIn", "stepInto", "stepOut", "bogus"}

\* DebugContext::handle_step_command
handle_step_command(step_type) ==
    /\ mode' = CASE step_type = "continue" -> "Continue"
                 [] step_type \in {"next", "stepOver"} -> "StepOver"
                 [] step_type \in {"stepIn", "stepInto"} -> "StepInto"
                 [] step_type = "stepOut" -> "StepOut"
                 [] OTHER -> mode
    /\ step_out_target_depth' =
           IF step_type = "stepOut" THEN saturating_sub_1(Len(call_stack))
           ELSE step_out_target_depth
    /\ HistScopeReset
    /\ UNCHANGED <<variables, call_stack, last_exit_code, breakpoints,
                   continue_requested, bp_last_op, preVars, sessVars, runVars>>

DapStepRequests == {"continue", "next", "stepIn", "stepOut"}

\* DapServer::handle_continue / handle_next / handle_step_in / handle_step_out:
\* set_mode(..) and continue_requested = true, under the context's lock
DapStepRequest(command) ==
    /\ mode' = CASE command = "continue" -> "Continue"
                 [] command = "next" -> "StepOver"
                 [] command = "stepIn" -> "StepInto"
                 [] command = "stepOut" -> "StepOut"
    /\ continue_requested' = TRUE
    /\ HistScopeReset
    /\ UNCHANGED <<variables, call_stack, last_exit_code, breakpoints,
                   step_out_target_depth, bp_last_op, preVars, sessVars, runVars>>

\* a frame pushed as CALL does it: call_stack.push(Frame::new(pc + 1, args))
PushFrame(return_pc, args) ==
    /\ Len(call_stack) < MaxDepth
    /\ call_stack' = Append(call_stack, Frame_new(return_pc, args))
    /\ HistScopeReset
    /\ UNCHANGED <<variables, last_exit_code, breakpoints, mode, step_out_target_depth,
                   continue_requested, bp_last_op, preVars, sessVars, runVars>>

\* leave_context: pop the innermost frame (None on an empty stack)
leave_context ==
    /\ call_stack # <<>>
    /\ call_stack' = Front(call_stack)
    /\ HistScopeReset
    /\ UNCHANGED <<variables, last_exit_code, breakpoints, mode, step_out_target_depth,
                   continue_requested, bp_last_op, preVars, sessVars, runVars>>

MaxRetPc == 2

BpInit == PreIdle /\ CtxNew /\ HistNew /\ SessIdle /\ RunIdle

BpNext ==
    \/ \E l \in BpLines : add_breakpoint(l)
    \/ \E l \in BpLines : remove_breakpoint(l)
    \/ \E m \in RunModes : set_mode(m)
    \/ \E t \in StepTypes : handle_step_command(t)
    \/ \E c \in DapStepRequests : DapStepRequest(c)
    \/ \E rp \in 1 .. MaxRetPc : PushFrame(rp, Some_args(<<>>))
    \/ leave_context

SpecBp == BpInit /\ [][BpNext]_vars

(***************************************************************************)
(* Claims about breakpoints and the run mode (checked under SpecBp)        *)
(***************************************************************************)
\* C1: after any sequence of add_breakpoint / remove_breakpoint calls, with run
\* mode Continue, should_stop_at(pc) is true exactly for the logical indices
\* that were added and not removed afterwards, whatever the call stack holds;
\* with no such index it is false for every pc.
C1_BreakpointParity ==
    mode = "Continue" =>
        /\ \A pc \in BpLines : should_stop_at(pc) <=> bp_last_op[pc] = "add"
        /\ \A pc \in 0 .. MaxBpLine + 1 :
               (\A l \in BpLines : bp_last_op[l] # "add") => ~should_stop_at(pc)

\* an index added and then removed, another still set, frames on the stack
C1_Witness ==
    /\ mode = "Continue"
    /\ bp_last_op[0] = "remove"
    /\ bp_last_op[1] = "add"
    /\ Len(call_stack) = 2
    /\ should_stop_at(1)
    /\ ~should_stop_at(0)

\* C10: whenever the run mode becomes StepOut (set_mode(StepOut), the
\* interactive step command, the DAP stepOut request), step_out_target_depth
\* is recorded as max(0, call_stack.len() - 1) of the call stack at that moment.
C10_StepOutTargetRecorded ==
    [][(mode # "StepOut" /\ mode' = "StepOut") =>
           step_out_target_depth' = saturating_sub_1(Len(call_stack))]_vars

(***************************************************************************)
(* DebugContext: variable scopes                                           *)
(***************************************************************************)
\* DebugContext::get_visible_variables
get_visible_variables ==
    IF call_stack # <<>> /\ Last(call_stack).has_setlocal
    THEN map_extend(variables, Last(call_stack).locals)
    ELSE variables

\* DebugContext::get_frame_variables
get_frame_variables(frame_index) ==
    IF frame_index < Len(call_stack) /\ call_stack[frame_index + 1].has_setlocal
    THEN call_stack[frame_index + 1].locals
    ELSE EmptyMap

\* the assignment track_set_command reads out of a line: [tracked, key, val]
NotTracked == [tracked |-> FALSE, key |-> <<>>, val |-> <<>>]
parse_set_command(line) ==
    LET l     == trim_start(line)
        rest0 == trim_start(slice_from(l, 3))
        rest1 == trim(rest0)
        rest  == IF starts_with(rest1, <<DQ>>) /\ ends_with(rest1, <<DQ>>) /\ Len(rest1) >= 2
                 THEN slice(rest1, 1, Len(rest1) - 1)
                 ELSE rest1
        eq_pos == find_char(rest, "=")
        key   == trim(slice(rest, 0, eq_pos))
        val   == trim(slice_from(rest, eq_pos + 1))
    IN  IF ~starts_with(to_uppercase(l), <<"S", "E", "T", SP>>) THEN NotTracked
        ELSE IF starts_with(to_uppercase(rest0), <<"/", "A">>) THEN NotTracked
        ELSE IF starts_with(to_uppercase(rest0), <<"/", "P">>) THEN NotTracked
        ELSE IF eq_pos < 0 THEN NotTracked
        ELSE IF key # <<>> /\ ~contains_char(key, "+") /\ ~contains_char(key, "-")
                /\ ~contains_char(key, "*") /\ ~contains_char(key, "/")
             THEN [tracked |-> TRUE, key |-> key, val |-> val]
             ELSE NotTracked

\* the call stack with the innermost frame replaced
with_top(stack, frame) == [stack EXCEPT ![Len(stack)] = frame]

\* handle_setlocal, handle_endlocal and track_set_command as functions of the
\* fields they read and write
setlocal_frames(stack) ==
    IF stack # <<>>
    THEN with_top(stack, [Last(stack) EXCEPT !.has_setlocal = TRUE])
    ELSE stack

endlocal_frames(stack) ==
    IF stack # <<>> /\ Last(stack).has_setlocal
    THEN with_top(stack, [Last(stack) EXCEPT !.locals = EmptyMap, !.has_setlocal = FALSE])
    ELSE stack

in_local_scope(stack) == stack # <<>> /\ Last(stack).has_setlocal

\* track_set_command's writes given the assignment a it read out of the line
track_set_with(stack, globals, a) ==
    [call_stack |-> IF a.tracked /\ in_local_scope(stack)
                    THEN with_top(stack,
                             [Last(stack) EXCEPT
                                 !.locals = map_insert(Last(stack).locals, a.key, a.val)])
                    ELSE stack,
     variables |-> IF a.tracked /\ ~in_local_scope(stack)
                   THEN map_insert(globals, a.key, a.val)
                   ELSE globals]

track_set(stack, globals, line) == track_set_with(stack, globals, parse_set_command(line))

\* DebugContext::handle_setlocal
handle_setlocal ==
    /\ call_stack' = setlocal_frames(call_stack)
    /\ scope_phase' = IF call_stack # <<>> THEN "open" ELSE "none"
    /\ scope_snap' = IF call_stack # <<>>
                     THEN [visible |-> get_visible_variables, globals |-> variables]
                     ELSE NoSnap
    /\ UNCHANGED <<variables, last_exit_code, breakpoints, mode, step_out_target_depth,
                   continue_requested, bp_last_op, preVars, sessVars, runVars>>

\* DebugContext::handle_endlocal
handle_endlocal ==
    /\ call_stack' = endlocal_frames(call_stack)
    /\ scope_phase' = IF scope_phase = "open" THEN "closed" ELSE "none"
    /\ scope_snap' = IF scope_phase = "open" THEN scope_snap ELSE NoSnap
    /\ UNCHANGED <<variables, last_exit_code, breakpoints, mode, step_out_target_depth,
                   continue_requested, bp_last_op, preVars, sessVars, runVars>>

\* DebugContext::track_set_command
track_set_command(line) ==
    /\ call_stack' = track_set(call_stack, variables, line).call_stack
    /\ variables' = track_set(call_stack, variables, line).variables
    /\ scope_phase' = IF scope_phase = "open" THEN "open" ELSE "none"
    /\ scope_snap' = IF scope_phase = "open" THEN scope_snap ELSE NoSnap
    /\ UNCHANGED <<last_exit_code, breakpoints, mode, step_out_target_depth,
                   continue_requested, bp_last_op, preVars, sessVars, runVars>>

\* the lines handed to track_set_command
SetLines ==
    { <<"S", "E", "T", SP, "A", "=", "1">>,
      <<"s", "e", "t", SP, "a", "=", "2">>,
      <<"S", "E", "T", SP, DQ, "B", "=", "x", DQ>>,
      <<"S", "E", "T", SP, "/", "A", SP, "C", "+", "=", "1">>,
      <<"S", "E", "T", SP, "/", "P", SP, "D", "=", "x">>,
      <<"e", "c", "h", "o", SP, "A", "=", "9">>,
      <<"S", "E", "T", SP, "A", "-", "B", "=", "1">> }

MaxScopeDepth == 2
TestReturnPc == 10

ScopeInit == PreIdle /\ CtxNew /\ HistNew /\ SessIdle /\ RunIdle

ScopePush == Len(call_stack) < MaxScopeDepth /\ PushFrame(TestReturnPc, None_args)

ScopeNext ==
    \/ ScopePush
    \/ leave_context
    \/ handle_setlocal
    \/ handle_endlocal
    \/ \E line \in SetLines : track_set_command(line)

SpecScope == ScopeInit /\ [][ScopeNext]_vars

(***************************************************************************)
(* Claims about variable scopes (checked under SpecScope)                  *)
(***************************************************************************)
\* C3: for a frame on top of the call stack, after handle_setlocal, any
\* sequence of track_set_command calls and then handle_endlocal,
\* get_visible_variables returns the same map as before handle_setlocal, and
\* the global variable map is unchanged.
C3_SetlocalEndlocalLaw ==
    scope_phase = "closed" =>
        /\ get_visible_variables = scope_snap.visible
        /\ variables = scope_snap.globals

(***************************************************************************)
(* CmdSession::run and the child shell                                     *)
(***************************************************************************)
SENTINEL == <<"_", "_", "C", "M", "D", "_", "D", "O", "N", "E", "_", "_">>
END_SUFFIX == <<"_", "E", "N", "D">>

Digits == <<"0", "1", "2", "3", "4", "5", "6", "7", "8", "9">>
is_digit(c) == \E i \in 1 .. 10 : Digits[i] = c
digit_value(c) == (CHOOSE i \in 1 .. 10 : Digits[i] = c) - 1

RECURSIVE digits_value(_)
digits_value(s) ==
    IF s = <<>> THEN 0 ELSE digits_value(Front(s)) * 10 + digit_value(Last(s))

\* str::parse::<i32>: an optional sign, then one or more digits, within i32
parse_i32(s) ==
    LET signed == s # <<>> /\ Head(s) \in {"+", "-"}
        body == IF signed THEN Tail(s) ELSE s
        well_formed == body # <<>> /\ \A i \in 1 .. Len(body) : is_digit(body[i])
        magnitude == IF well_formed THEN digits_value(body) ELSE 0
        val == IF signed /\ Head(s) = "-" THEN 0 - magnitude ELSE magnitude
    IN  IF well_formed /\ val >= 0 - 2147483647 - 1 /\ val <= 2147483647
        THEN [ok |-> TRUE, val |-> val]
        ELSE [ok |-> FALSE, val |-> 0]

\* the shell's expansion of %errorlevel% / !ERRORLEVEL!: decimal text
RECURSIVE fmt_nat(_)
fmt_nat(n) ==
    IF n < 10 THEN <<Digits[n + 1]>> ELSE fmt_nat(n \div 10) \o <<Digits[(n % 10) + 1]>>
fmt_i32(n) == IF n < 0 THEN <<"-">> \o fmt_nat(0 - n) ELSE fmt_nat(n)

\* str::eq_ignore_ascii_case
eq_ignore_ascii_case(a, b) == to_lowercase(a) = to_lowercase(b)

\* CmdSession::needs_continuation: the same scan as paren_delta, > 0
needs_continuation(cmd) == paren_delta(cmd) > 0

\* str::trim_end_matches(&['\r', '\n'][..])
RECURSIVE trim_end_crlf(_)
trim_end_crlf(s) ==
    IF s # <<>> /\ Last(s) \in {CR, LF} THEN trim_end_crlf(Front(s)) ELSE s

\* a line in the child's output pipe: its text with the terminator, whether it
\* can be decoded as UTF-8, and (history) whether the child wrote it for a
\* sentinel echo and with which exit code
TextLine(t) == [text |-> t \o <<CR, LF>>, utf8 |-> TRUE, sentinel |-> FALSE, code |-> 0]
BlankLine == TextLine(<<>>)
BadLine == [text |-> <<>>, utf8 |-> FALSE, sentinel |-> FALSE, code |-> 0]
SentinelLine(impl, code) ==
    [text |-> IF impl = "debugger"
              THEN SENTINEL \o <<"_">> \o fmt_i32(code) \o END_SUFFIX \o <<CR, LF>>
              ELSE SENTINEL \o <<SP>> \o fmt_i32(code) \o <<CR, LF>>,
     utf8 |-> TRUE, sentinel |-> TRUE, code |-> code]

\* calls of run per session, the exit codes the child reports, the lines a
\* command prints, and the commands submitted
MaxRuns == 2
ExitCodes == {0, 7, 0 - 1}
ChildBodies ==
    { <<>>,
      <<TextLine(<<"h", "i">>)>>,
      <<BlankLine, TextLine(<<"h", "i">>)>>,
      <<BadLine>> }
SessCmds ==
    { <<"@", "e", "c", "h", "o", SP, "o", "f", "f">>,
      <<"E", "C", "H", "O", SP, "O", "F", "F", SP>>,
      <<"d", "i", "r">>,
      <<"i", "f", SP, "x", SP, "(">> }

\* what a call of run returned: Ok((output, code)) or Err, and (history) by
\* which return statement
RunOk(path, out, code) == [kind |-> "ok", path |-> path, output |-> out, code |-> code]
RunErr(path) == [kind |-> "err", path |-> path, output |-> <<>>, code |-> 0]

\* session.rs: cmd.trim().eq_ignore_ascii_case("@echo off") || .. ("echo off")
is_echo_off(cmd) ==
    to_lowercase(trim(cmd)) \in { <<"@", "e", "c", "h", "o", SP, "o", "f", "f">>,
                                  <<"e", "c", "h", "o", SP, "o", "f", "f">> }

\* the lines run writes to the child's stdin, by what they are
Written(kind, text) == [write |-> kind, text |-> text]
run_writes(impl, cmd) ==
    IF impl = "main" THEN <<Written("wrapped", cmd)>>
    ELSE IF is_echo_off(cmd) THEN <<Written("cmd", cmd)>>
    ELSE IF needs_continuation(cmd)
         THEN <<Written("call_temp", cmd), Written("del_temp", <<>>),
                Written("echo_blank", <<>>), Written("echo_sentinel", <<>>)>>
         ELSE <<Written("cmd", cmd), Written("echo_blank", <<>>),
                Written("echo_sentinel", <<>>)>>

\* what the child writes for one submitted command: the command's own lines,
\* then the blank line of `echo.` (session.rs only), then the sentinel line
ChildResponse(impl, body, code) ==
    body \o (IF impl = "debugger" THEN <<BlankLine>> ELSE <<>>)
         \o <<SentinelLine(impl, code)>>

\* one iteration of the read loop of session.rs on a decodable line
debugger_read(r) ==
    LET line == r.text
        trimmed == trim(line)
        is_sentinel == starts_with(trimmed, SENTINEL) /\ ends_with(trimmed, END_SUFFIX)
        prefix_len == Len(SENTINEL) + 1
        suffix_len == Len(END_SUFFIX)
        parsed == parse_i32(slice(trimmed, prefix_len, Len(trimmed) - suffix_len))
        first_blank == trimmed = <<>> /\ ~found_blank
    IN  IF is_sentinel
        THEN [next |-> "break", sentinel |-> TRUE, output |-> output,
              exit_code |-> IF Len(trimmed) > prefix_len + suffix_len /\ parsed.ok
                            THEN parsed.val ELSE exit_code,
              found_blank |-> found_blank, collecting |-> collecting]
        ELSE IF first_blank
        THEN [next |-> "continue", sentinel |-> FALSE, output |-> output,
              exit_code |-> exit_code, found_blank |-> TRUE, collecting |-> FALSE]
        ELSE [next |-> "continue", sentinel |-> FALSE,
              output |-> IF collecting /\ trimmed # <<>> THEN output \o line ELSE output,
              exit_code |-> exit_code, found_blank |-> found_blank,
              collecting |-> collecting]

\* one iteration of the read loop of main.rs on a decodable line
main_read(r) ==
    LET line == r.text
        trimmed == trim_end_crlf(line)
        is_sentinel == starts_with(trimmed, SENTINEL)
        parsed == parse_i32(trim(slice_from(trimmed, Len(SENTINEL))))
    IN  IF is_sentinel
        THEN [next |-> "break", sentinel |-> TRUE, output |-> output,
              exit_code |-> IF parsed.ok THEN parsed.val ELSE exit_code,
              found_blank |-> found_blank, collecting |-> collecting]
        ELSE [next |-> "continue", sentinel |-> FALSE, output |-> output \o line,
              exit_code |-> exit_code, found_blank |-> found_blank,
              collecting |-> collecting]

sessOthers == <<preVars, ctxVars, histVars, runVars>>

\* CmdSession::run up to its read loop (session.rs:114-172, main.rs:40-46):
\* the writes, and the child taking note of what it will answer
SessRun(cmd, body, code) ==
    /\ run_pc \in {"idle", "returned"}
    /\ run_count < MaxRuns
    /\ run_count' = run_count + 1
    /\ run_cmd' = cmd
    /\ child_stdin' = IF child_alive THEN child_stdin \o run_writes(sess_impl, cmd)
                      ELSE child_stdin
    /\ child_pending' =
           IF child_alive /\ ~(sess_impl = "debugger" /\ is_echo_off(cmd))
           THEN child_pending \o ChildResponse(sess_impl, body, code)
           ELSE child_pending
    /\ run_pc' = IF child_alive /\ ~(sess_impl = "debugger" /\ is_echo_off(cmd))
                 THEN "top" ELSE "returned"
    /\ run_result' =
           IF ~child_alive THEN RunErr("write")
           ELSE IF sess_impl = "debugger" /\ is_echo_off(cmd) THEN RunOk("echo_off", <<>>, 0)
           ELSE NoRunResult
    /\ output' = <<>>
    /\ exit_code' = 0
    /\ found_blank' = FALSE
    /\ collecting' = TRUE
    /\ elapsed' = FALSE
    /\ consumed' = <<>>
    /\ UNCHANGED <<sess_impl, child_alive, child_stdout, sessOthers>>

\* the child writes its next line into the pipe
ChildWrite ==
    /\ child_alive
    /\ child_pending # <<>>
    /\ child_stdout' = Append(child_stdout, Head(child_pending))
    /\ child_pending' = Tail(child_pending)
    /\ UNCHANGED <<sess_impl, child_alive, child_stdin, run_pc, run_cmd, output, exit_code,
                   found_blank, collecting, elapsed, run_result, run_count, consumed,
                   sessOthers>>

\* the child process ends; what it already wrote stays readable
ChildDies ==
    /\ child_alive
    /\ child_alive' = FALSE
    /\ child_pending' = <<>>
    /\ UNCHANGED <<sess_impl, child_stdin, child_stdout, run_pc, run_cmd, output, exit_code,
                   found_blank, collecting, elapsed, run_result, run_count, consumed,
                   sessOthers>>

\* the five seconds of session.rs:169 run out while the call is in read_line
\* or in its 50 ms sleep
TimePasses ==
    /\ sess_impl = "debugger"
    /\ run_pc = "read"
    /\ ~elapsed
    /\ elapsed' = TRUE
    /\ UNCHANGED <<sess_impl, child_alive, child_stdin, child_pending, child_stdout, run_pc,
                   run_cmd, output, exit_code, found_blank, collecting, run_result,
                   run_count, consumed, sessOthers>>

\* top of the loop: session.rs:176-181 (main.rs has no timeout)
LoopTop ==
    /\ run_pc = "top"
    /\ run_pc' = IF sess_impl = "debugger" /\ elapsed THEN "returned" ELSE "read"
    /\ run_result' = IF sess_impl = "debugger" /\ elapsed
                     THEN RunOk("timeout", output, 1) ELSE run_result
    /\ UNCHANGED <<sess_impl, child_alive, child_stdin, child_pending, child_stdout, run_cmd,
                   output, exit_code, found_blank, collecting, elapsed, run_count, consumed,
                   sessOthers>>

\* read_line returns a line: session.rs:189-224, main.rs:50-63
ReadLine ==
    /\ run_pc = "read"
    /\ child_stdout # <<>>
    /\ LET r == Head(child_stdout)
           step == IF sess_impl = "debugger" THEN debugger_read(r) ELSE main_read(r)
       IN  /\ child_stdout' = Tail(child_stdout)
           /\ output' = IF r.utf8 THEN step.output ELSE output
           /\ exit_code' = IF r.utf8 THEN step.exit_code ELSE exit_code
           /\ found_blank' = IF r.utf8 THEN step.found_blank ELSE found_blank
           /\ collecting' = IF r.utf8 THEN step.collecting ELSE collecting
           /\ consumed' = IF r.utf8 /\ step.sentinel THEN Append(consumed, r) ELSE consumed
           /\ run_pc' = IF ~r.utf8 THEN "returned"
                        ELSE IF step.next = "break" THEN "returned" ELSE "top"
           /\ run_result' = IF ~r.utf8 THEN RunErr("read")
                            ELSE IF step.next = "break"
                                 THEN RunOk("sentinel", step.output, step.exit_code)
                                 ELSE run_result
    /\ UNCHANGED <<sess_impl, child_alive, child_stdin, child_pending, run_cmd, elapsed,
                   run_count, sessOthers>>

\* read_line returns Ok(0): session.rs:185-188 sleeps and loops, main.rs:51-54
\* leaves the loop and returns what it has
ReadEof ==
    /\ run_pc = "read"
    /\ child_stdout = <<>>
    /\ ~child_alive
    /\ run_pc' = IF sess_impl = "debugger" THEN "top" ELSE "returned"
    /\ run_result' = IF sess_impl = "debugger" THEN run_result
                     ELSE RunOk("eof", output, exit_code)
    /\ UNCHANGED <<sess_impl, child_alive, child_stdin, child_pending, child_stdout, run_cmd,
                   output, exit_code, found_blank, collecting, elapsed, run_count, consumed,
                   sessOthers>>

SessInit ==
    /\ PreIdle /\ CtxNew /\ HistNew /\ RunIdle
    /\ sess_impl \in {"debugger", "main"}
    /\ child_alive = TRUE
    /\ child_stdin = <<>>
    /\ child_pending = <<>>
    /\ child_stdout = <<>>
    /\ run_pc = "idle"
    /\ run_cmd = <<>>
    /\ output = <<>>
    /\ exit_code = 0
    /\ found_blank = FALSE
    /\ collecting = TRUE
    /\ elapsed = FALSE
    /\ run_result = NoRunResult
    /\ run_count = 0
    /\ consumed = <<>>

SessNext ==
    \/ \E cmd \in SessCmds, body \in ChildBodies, code \in ExitCodes :
           SessRun(cmd, body, code)
    \/ ChildWrite
    \/ ChildDies
    \/ TimePasses
    \/ LoopTop
    \/ ReadLine
    \/ ReadEof

SpecSess == SessInit /\ [][SessNext]_vars

(***************************************************************************)
(* Claims about the session (checked under SpecSess)                       *)
(***************************************************************************)
\* C5: for every command submitted to CmdSession::run, whatever its text and
\* whichever path run returns by, exactly one sentinel line is consumed from
\* the child's output by that call, and the exit code returned equals the
\* integer carried by that sentinel line.
C5_SentinelIntegrity ==
    (run_pc = "returned" /\ run_result.kind = "ok") =>
        /\ Len(consumed) = 1
        /\ consumed[1].sentinel
        /\ run_result.code = consumed[1].code

(***************************************************************************)
(* Command parsing (src/parser/commands.rs, src/parser/labels.rs)          *)
(***************************************************************************)
\* position (1-based) of the first whitespace character of t, Len(t) + 1 if none
first_whitespace(t) ==
    IF \E i \in 1 .. Len(t) : is_whitespace(t[i])
    THEN CHOOSE i \in 1 .. Len(t) :
             is_whitespace(t[i]) /\ \A j \in 1 .. i - 1 : ~is_whitespace(t[j])
    ELSE Len(t) + 1

\* str::split_whitespace, collected
RECURSIVE split_whitespace(_)
split_whitespace(s) ==
    LET t == trim_start(s)
        n == first_whitespace(t)
    IN  IF t = <<>> THEN <<>>
        ELSE <<SubSeq(t, 1, n - 1)>> \o split_whitespace(SubSeq(t, n, Len(t)))

\* [&str]::join(" ")
RECURSIVE join_space(_)
join_space(tokens) ==
    IF tokens = <<>> THEN <<>>
    ELSE IF Len(tokens) = 1 THEN tokens[1]
    ELSE tokens[1] \o <<SP>> \o join_space(Tail(tokens))

\* normalize_whitespace
normalize_whitespace(line) == join_space(split_whitespace(line))

\* is_comment
is_comment(line) ==
    LET trimmed == trim(line)
    IN  \/ trimmed = <<>>
        \/ starts_with(to_uppercase(trimmed), <<"R", "E", "M", SP>>)
        \/ starts_with(trimmed, <<":", ":">>)
        \/ starts_with(to_uppercase(trimmed), <<"R", "E", "M", TAB>>)

\* CommandPart
CommandPart(text, op) == [text |-> text, op |-> op]

\* split_composite_command: the scan from the character at position i (1-based)
RECURSIVE split_from(_, _, _, _, _, _)
split_from(line, i, current, in_quotes, escaped, parts) ==
    IF i > Len(line)
    THEN IF trim(current) # <<>>
         THEN Append(parts, CommandPart(trim(current), "None"))
         ELSE parts
    ELSE LET ch == line[i]
             peek == IF i < Len(line) THEN line[i + 1] ELSE "none"
         IN  IF escaped
             THEN split_from(line, i + 1, Append(current, ch), in_quotes, FALSE, parts)
             ELSE IF ch = "^"
             THEN split_from(line, i + 1, Append(current, ch), in_quotes, TRUE, parts)
             ELSE IF ch = DQ
             THEN split_from(line, i + 1, Append(current, ch), ~in_quotes, FALSE, parts)
             ELSE IF ~in_quotes /\ ch = "&"
             THEN IF peek = "&"
                  THEN split_from(line, i + 2, <<>>, in_quotes, FALSE,
                                  Append(parts, CommandPart(trim(current), "And")))
                  ELSE split_from(line, i + 1, <<>>, in_quotes, FALSE,
                                  Append(parts, CommandPart(trim(current), "Unconditional")))
             ELSE IF ~in_quotes /\ ch = "|" /\ peek = "|"
             THEN split_from(line, i + 2, <<>>, in_quotes, FALSE,
                             Append(parts, CommandPart(trim(current), "Or")))
             ELSE split_from(line, i + 1, Append(current, ch), in_quotes, FALSE, parts)

split_composite_command(line) == split_from(line, 1, <<>>, FALSE, FALSE, <<>>)

\* str::replace(pat, rep) for a non-empty pattern
RECURSIVE str_replace(_, _, _)
str_replace(s, pat, rep) ==
    IF s = <<>> THEN <<>>
    ELSE IF starts_with(s, pat)
         THEN rep \o str_replace(SubSeq(s, Len(pat) + 1, Len(s)), pat, rep)
         ELSE <<Head(s)>> \o str_replace(Tail(s), pat, rep)

\* str::trim_matches('"') and str::trim_start_matches(':')
RECURSIVE trim_start_matches(_, _)
trim_start_matches(s, c) ==
    IF s # <<>> /\ Head(s) = c THEN trim_start_matches(Tail(s), c) ELSE s
RECURSIVE trim_end_matches_char(_, _)
trim_end_matches_char(s, c) ==
    IF s # <<>> /\ Last(s) = c THEN trim_end_matches_char(Front(s), c) ELSE s
trim_matches(s, c) == trim_end_matches_char(trim_start_matches(s, c), c)

\* expand_positional_args: the loop `for i in (1..=9).rev()` from i downwards
RECURSIVE expand_from(_, _, _)
expand_from(text, args, i) ==
    IF i = 0 THEN text
    ELSE LET val == IF i <= Len(args) THEN args[i] ELSE <<>>
             unquoted == trim_matches(val, DQ)
             t1 == str_replace(text, <<"%", "~", Digits[i + 1]>>, unquoted)
             t2 == str_replace(t1, <<"%", Digits[i + 1]>>, val)
         IN  expand_from(t2, args, i - 1)

expand_positional_args(text, args) == expand_from(text, args, 9)

\* build_label_map: the loop over lines[from ..] (0-based from)
RECURSIVE build_label_map_from(_, _, _)
build_label_map_from(lines, from, map) ==
    IF from >= Len(lines) THEN map
    ELSE LET t == trim(lines[from + 1])
             label_text == slice_from(t, 1)
             tokens == split_whitespace(label_text)
             label_name == IF tokens # <<>> THEN tokens[1] ELSE label_text
         IN  IF starts_with(t, <<":">>) /\ Len(t) > 1
             THEN build_label_map_from(lines, from + 1,
                      map_insert(map, to_lowercase(trim(label_name)), from))
             ELSE build_label_map_from(lines, from + 1, map)

build_label_map(lines) == build_label_map_from(lines, 0, EmptyMap)

(***************************************************************************)
(* The interpreter loops: run_debugger (src/executor/runner.rs) and        *)
(* run_debugger_dap (src/executor/dap_runner.rs).  The session is seen     *)
(* through what run_command / run_batch_block are given and return.        *)
(***************************************************************************)
\* exit codes the session returns, and the deepest call stack explored
MaxRunCode == 1
MaxCallDepth == 2
RunCodes == 0 .. MaxRunCode

\* io::Result<(String, i32)> of run_command, without the output text
SessionResults ==
    {[ok |-> TRUE, code |-> c] : c \in RunCodes} \cup {[ok |-> FALSE, code |-> 0]}

\* the session calls one loop iteration makes are answered by results[1..n]
ResultSeqs(n) == [1 .. n -> SessionResults]

\* one call made on the session: run_command(text) or run_batch_block(lines)
Issued(call, text, result) == [call |-> call, text |-> text, result |-> result]

\* the EOF unwinding loop at the top of an iteration (runner.rs:62-71)
RECURSIVE unwind(_, _, _)
unwind(pcv, stack, n) ==
    IF pcv < n THEN [pc |-> pcv, call_stack |-> stack, ended |-> FALSE]
    ELSE IF stack = <<>> THEN [pc |-> pcv, call_stack |-> stack, ended |-> TRUE]
    ELSE unwind(Last(stack).return_pc, Front(stack), n)

\* the locals `raw` and `line` of an iteration at pcv
raw_at(pcv) == pre_result.logical[pcv + 1].text
line_at(pcv) == normalize_whitespace(trim(raw_at(pcv)))

KW_SETLOCAL == <<"S", "E", "T", "L", "O", "C", "A", "L">>
KW_ENDLOCAL == <<"E", "N", "D", "L", "O", "C", "A", "L">>
KW_CALL == <<"C", "A", "L", "L", SP>>
KW_EXIT_B == <<"E", "X", "I", "T", SP, "/", "B">>
KW_GOTO == <<"G", "O", "T", "O", SP>>
KW_GOTO_EOF == <<"G", "O", "T", "O", SP, ":", "E", "O", "F">>
KW_PAUSE == <<"P", "A", "U", "S", "E">>
KW_IF == <<"I", "F", SP>>
KW_FOR == <<"F", "O", "R", SP>>
KW_REM == <<"R", "E", "M", SP>>

\* what an iteration does before its stop decision: "skip" (pc += 1; continue),
\* "setlocal" / "endlocal" (runner.rs:90-112 handles them before the decision),
\* or "decide"
before_decision(impl, line, line_upper) ==
    IF impl = "interactive"
    THEN IF is_comment(line) THEN "skip"
         ELSE IF starts_with(trim(line), <<":">>) THEN "skip"
         ELSE IF starts_with(line_upper, KW_SETLOCAL) THEN "setlocal"
         ELSE IF starts_with(line_upper, KW_ENDLOCAL) THEN "endlocal"
         ELSE "decide"
    ELSE IF starts_with(trim(line), <<":">>) THEN "skip"
         ELSE IF starts_with(line_upper, KW_REM) THEN "skip"
         ELSE IF starts_with(trim(line), <<":", ":">>) THEN "skip"
         ELSE "decide"

\* the stop decision as it would be if StepInto looked at the captured depth
loop_should_stop_mut_depth(stack, pcv) ==
    CASE mode = "Continue" -> should_stop_with(stack, pcv)
      [] mode \in {"StepInto", "StepOver"} ->
             IF step_depth # NoDepth THEN Len(stack) <= step_depth ELSE TRUE
      [] mode = "StepOut" -> should_stop_with(stack, pcv)

\* the stop decision (runner.rs:119-130, dap_runner.rs:60-71)
loop_should_stop(stack, pcv) ==
    CASE mode = "Continue" -> should_stop_with(stack, pcv)
      [] mode = "StepInto" -> TRUE
      [] mode = "StepOver" -> IF step_depth # NoDepth THEN Len(stack) <= step_depth ELSE TRUE
      [] mode = "StepOut" -> should_stop_with(stack, pcv)

\* the state an iteration leaves behind
Outcome(pcv, stack, globals, code, state, end, issued, parts) ==
    [pc |-> pcv, call_stack |-> stack, variables |-> globals, last_exit_code |-> code,
     state |-> state, end |-> end, issued |-> issued, parts |-> parts,
     overflow |-> Len(stack) > MaxCallDepth]

\* leave_outcome as it would be if the frame were read but not popped
leave_outcome_mut_keeps(pcv, stack, globals, code) ==
    IF stack # <<>>
    THEN Outcome(Last(stack).return_pc, stack, globals, code, "running", "none",
                 <<>>, <<>>)
    ELSE Outcome(pcv, stack, globals, code, "done", "exit", <<>>, <<>>)

\* leave_context as EXIT /B and GOTO :EOF use it
leave_outcome(pcv, stack, globals, code) ==
    IF stack # <<>>
    THEN Outcome(Last(stack).return_pc, Front(stack), globals, code, "running", "none",
                 <<>>, <<>>)
    ELSE Outcome(pcv, stack, globals, code, "done", "exit", <<>>, <<>>)

\* SETLOCAL / ENDLOCAL line: scope flag (in stack), then the line goes to the
\* session
scope_outcome(pcv, line, stack, globals, code, result) ==
    IF result.ok
    THEN Outcome(pcv + 1, stack, globals, result.code, "running", "none",
                 <<Issued("run_command", line, result)>>, <<>>)
    ELSE Outcome(pcv, stack, globals, code, "done", "io_error",
                 <<Issued("run_command", line, result)>>, <<>>)

\* shlex::Shlex on text without quotes, backslashes or '#': whitespace split
shlex_split(s) == split_whitespace(s)

\* Iterator::next().unwrap_or_default() and the rest of the iterator
first_token(tokens) == IF tokens # <<>> THEN tokens[1] ELSE <<>>
rest_tokens(tokens) == IF tokens # <<>> THEN Tail(tokens) ELSE <<>>

\* CALL :label [args...]
\* call_to as it would be if the frame kept the pc of the CALL line itself
call_to_mut_same_pc(pcv, label_key, args, stack, globals, code) ==
    IF label_key \in DOMAIN labels_phys
    THEN Outcome(pre_result.phys_to_logical[labels_phys[label_key] + 1],
                 Append(stack, Frame_new(pcv, Some_args(args))),
                 globals, code, "running", "none", <<>>, <<>>)
    ELSE Outcome(pcv, stack, globals, code, "done", "unknown_label", <<>>, <<>>)
call_to(pcv, label_key, args, stack, globals, code) ==
    IF label_key \in DOMAIN labels_phys
    THEN Outcome(pre_result.phys_to_logical[labels_phys[label_key] + 1],
                 Append(stack, Frame_new(pcv + 1, Some_args(args))),
                 globals, code, "running", "none", <<>>, <<>>)
    ELSE Outcome(pcv, stack, globals, code, "done", "unknown_label", <<>>, <<>>)
call_tokens(pcv, tokens, stack, globals, code) ==
    call_to(pcv, to_lowercase(trim_start_matches(first_token(tokens), ":")),
            rest_tokens(tokens), stack, globals, code)
call_outcome(pcv, line, stack, globals, code) ==
    call_tokens(pcv, shlex_split(trim(slice_from(line, 5))), stack, globals, code)

\* EXIT /B [code]
unwrap_or_0_mut_zero(parsed) == 0
unwrap_or_0(parsed) == IF parsed.ok THEN parsed.val ELSE 0
exit_b_outcome(pcv, line, stack, globals) ==
    leave_outcome(pcv, stack, globals, unwrap_or_0(parse_i32(trim(slice_from(line, 7)))))

\* GOTO label; the DAP runner treats the key `eof` here
goto_to(impl, pcv, label_key, stack, globals, code) ==
    IF impl = "dap" /\ label_key = <<"e", "o", "f">>
    THEN leave_outcome(pcv, stack, globals, code)
    ELSE IF label_key \in DOMAIN labels_phys
    THEN Outcome(pre_result.phys_to_logical[labels_phys[label_key] + 1], stack,
                 globals, code, "running", "none", <<>>, <<>>)
    ELSE Outcome(pcv, stack, globals, code, "done", "unknown_label", <<>>, <<>>)
goto_outcome(impl, pcv, line, stack, globals, code) ==
    goto_to(impl, pcv,
            to_lowercase(first_token(split_whitespace(
                trim_start_matches(trim(slice_from(line, 5)), ":")))),
            stack, globals, code)

\* the positional arguments in force: those of the innermost frame, if any
expand_in_frame(text, stack) ==
    IF stack # <<>> /\ Last(stack).args.some
    THEN expand_positional_args(text, Last(stack).args.vals)
    ELSE text

\* runner.rs:296-301: collect the lines of a block
RECURSIVE collect_block(_, _, _)
collect_block(block_lines, block_pc, balance) ==
    IF balance > 0 /\ block_pc < Len(pre_result.logical)
    THEN collect_block(Append(block_lines, raw_at(block_pc)), block_pc + 1,
                       balance + paren_delta(raw_at(block_pc)))
    ELSE [block_lines |-> block_lines, block_pc |-> block_pc]

is_block_start(raw, line_upper) ==
    /\ \/ starts_with(line_upper, KW_IF)
       \/ starts_with(line_upper, KW_FOR)
    /\ paren_delta(raw) > 0

\* runner.rs:289-321: the block b goes to run_batch_block, whose first session
\* call decides its result (the cleanup call's result is dropped)
block_run(pcv, b, stack, globals, code, result) ==
    IF result.ok
    THEN Outcome(b.block_pc, stack, globals, result.code, "running", "none",
                 <<Issued("run_batch_block",
                          [k \in 1 .. Len(b.block_lines) |->
                              expand_in_frame(b.block_lines[k], stack)], result)>>, <<>>)
    ELSE Outcome(pcv, stack, globals, code, "done", "io_error",
                 <<Issued("run_batch_block",
                          [k \in 1 .. Len(b.block_lines) |->
                              expand_in_frame(b.block_lines[k], stack)], result)>>, <<>>)
block_outcome(pcv, raw, stack, globals, code, results) ==
    block_run(pcv, collect_block(<<raw>>, pcv + 1, paren_delta(raw)), stack, globals, code,
              results[1])

\* runner.rs:342-353
should_execute(parts, i, code) ==
    IF i = 0 THEN TRUE
    ELSE CASE parts[i].op = "Unconditional" -> TRUE
           [] parts[i].op = "And" -> code = 0
           [] parts[i].op = "Or" -> code # 0
           [] parts[i].op = "None" -> TRUE

\* runner.rs:337-381: the loop over the parts from part i (0-based); k is the
\* number of session calls made so far in this iteration
RECURSIVE parts_outcome(_, _, _, _, _, _, _, _, _)
RECURSIVE parts_issue(_, _, _, _, _, _, _, _, _)
RECURSIVE parts_issued(_, _, _, _, _, _, _, _, _)

parts_outcome(pcv, parts, i, stack, globals, code, issued, results, k) ==
    IF i >= Len(parts)
    THEN Outcome(pcv + 1, stack, globals, code, "running", "none", issued, parts)
    ELSE IF trim(parts[i + 1].text) = <<>>
    THEN parts_outcome(pcv, parts, i + 1, stack, globals, code, issued, results, k)
    ELSE IF ~should_execute(parts, i, code)
    THEN parts_outcome(pcv, parts, i + 1, stack, globals, code, issued, results, k)
    ELSE parts_issue(pcv, parts, i, expand_in_frame(parts[i + 1].text, stack), stack,
                     globals, code, issued, Append(results, k))

\* runner.rs:367-369: track_set_command(&exec_text), run_command(&exec_text)
parts_issue(pcv, parts, i, exec_text, stack, globals, code, issued, results_k) ==
    parts_issued(pcv, parts, i, track_set(stack, globals, exec_text), code,
                 Append(issued, Issued("run_command", exec_text,
                                       results_k[Last(results_k) + 1])),
                 results_k[Last(results_k) + 1], Front(results_k), Last(results_k))

\* runner.rs:369-377: `?` on the result, then last_exit_code = code
parts_issued(pcv, parts, i, tracked, code, issued, result, results, k) ==
    IF result.ok
    THEN parts_outcome(pcv, parts, i + 1, tracked.call_stack, tracked.variables,
                       result.code, issued, results, k + 1)
    ELSE Outcome(pcv, tracked.call_stack, tracked.variables, code, "done", "io_error",
                 issued, parts)

\* whole_line_run as it would be if the code the session returns were dropped
whole_line_run_mut_keeps(pcv, line, tracked, code, result) ==
    IF result.ok
    THEN Outcome(pcv + 1, tracked.call_stack, tracked.variables, code, "running",
                 "none", <<Issued("run_command", line, result)>>,
                 split_composite_command(line))
    ELSE Outcome(pcv, tracked.call_stack, tracked.variables, code, "done", "io_break",
                 <<Issued("run_command", line, result)>>, split_composite_command(line))

\* dap_runner.rs:231-246: the whole line is tracked and sent
whole_line_run(pcv, line, tracked, code, result) ==
    IF result.ok
    THEN Outcome(pcv + 1, tracked.call_stack, tracked.variables, result.code, "running",
                 "none", <<Issued("run_command", line, result)>>,
                 split_composite_command(line))
    ELSE Outcome(pcv, tracked.call_stack, tracked.variables, code, "done", "io_break",
                 <<Issued("run_command", line, result)>>, split_composite_command(line))
whole_line_outcome(pcv, line, stack, globals, code, results) ==
    whole_line_run(pcv, line, track_set(stack, globals, line), code, results[1])

\* what the interactive runner does with a line after the stop decision
\* (runner.rs:198-383)
interactive_dispatch(pcv, raw, line, line_upper, stack, globals, code, results) ==
    IF line_upper = KW_PAUSE
    THEN Outcome(pcv + 1, stack, globals, code, "running", "none", <<>>, <<>>)
    ELSE IF starts_with(line_upper, KW_CALL)
    THEN call_outcome(pcv, line, stack, globals, code)
    ELSE IF starts_with(line_upper, KW_EXIT_B)
    THEN exit_b_outcome(pcv, line, stack, globals)
    ELSE IF line_upper = KW_GOTO_EOF
    THEN leave_outcome(pcv, stack, globals, code)
    ELSE IF starts_with(line_upper, KW_GOTO)
    THEN goto_outcome("interactive", pcv, line, stack, globals, code)
    ELSE IF is_block_start(raw, line_upper)
    THEN block_outcome(pcv, raw, stack, globals, code, results)
    ELSE parts_outcome(pcv, split_composite_command(line), 0, stack, globals, code, <<>>,
                       results, 0)

\* what the DAP runner does with a line after the stop decision
\* (dap_runner.rs:137-249)
dap_dispatch(pcv, line, line_upper, stack, globals, code, results) ==
    IF starts_with(line_upper, KW_SETLOCAL)
    THEN scope_outcome(pcv, line, setlocal_frames(stack), globals, code, results[1])
    ELSE IF starts_with(line_upper, KW_ENDLOCAL)
    THEN scope_outcome(pcv, line, endlocal_frames(stack), globals, code, results[1])
    ELSE IF starts_with(line_upper, KW_CALL)
    THEN call_outcome(pcv, line, stack, globals, code)
    ELSE IF starts_with(line_upper, KW_EXIT_B)
    THEN exit_b_outcome(pcv, line, stack, globals)
    ELSE IF starts_with(line_upper, KW_GOTO)
    THEN goto_outcome("dap", pcv, line, stack, globals, code)
    ELSE whole_line_outcome(pcv, line, stack, globals, code, results)

dispatch_line(impl, pcv, raw, line, line_upper, stack, globals, code, results) ==
    IF impl = "interactive"
    THEN interactive_dispatch(pcv, raw, line, line_upper, stack, globals, code, results)
    ELSE dap_dispatch(pcv, line, line_upper, stack, globals, code, results)

dispatch_text(impl, pcv, raw, line, stack, globals, code, results) ==
    dispatch_line(impl, pcv, raw, line, to_uppercase(line), stack, globals, code, results)

\* the part of an iteration that follows the stop decision, at line pcv
dispatch(impl, pcv, stack, globals, code, results) ==
    dispatch_text(impl, pcv, raw_at(pcv), line_at(pcv), stack, globals, code, results)

\* an iteration on the line at u.pc, given what precedes the stop decision
iteration_line(impl, results, u, line, before) ==
    IF before = "skip"
    THEN [kind |-> "skipped", at |-> u.pc, depth |-> Len(u.call_stack),
          out |-> Outcome(u.pc + 1, u.call_stack, variables, last_exit_code, "running",
                          "none", <<>>, <<>>)]
    ELSE IF before = "setlocal"
    THEN [kind |-> "undecided", at |-> u.pc, depth |-> Len(u.call_stack),
          out |-> scope_outcome(u.pc, line, setlocal_frames(u.call_stack), variables,
                                last_exit_code, results[1])]
    ELSE IF before = "endlocal"
    THEN [kind |-> "undecided", at |-> u.pc, depth |-> Len(u.call_stack),
          out |-> scope_outcome(u.pc, line, endlocal_frames(u.call_stack), variables,
                                last_exit_code, results[1])]
    ELSE IF loop_should_stop(u.call_stack, u.pc)
    THEN [kind |-> "stopped", at |-> u.pc, depth |-> Len(u.call_stack),
          out |-> Outcome(u.pc, u.call_stack, variables, last_exit_code, "stopped",
                          "none", <<>>, <<>>)]
    ELSE [kind |-> "passed", at |-> u.pc, depth |-> Len(u.call_stack),
          out |-> dispatch_text(impl, u.pc, raw_at(u.pc), line, u.call_stack, variables,
                                last_exit_code, results)]

iteration_text(impl, results, u, line) ==
    iteration_line(impl, results, u, line, before_decision(impl, line, to_uppercase(line)))

\* an iteration after the EOF unwinding u
iteration_from(impl, results, u) ==
    IF u.ended
    THEN [kind |-> "ended", at |-> u.pc, depth |-> Len(u.call_stack),
          out |-> Outcome(u.pc, u.call_stack, variables, last_exit_code, "done", "eof",
                          <<>>, <<>>)]
    ELSE iteration_text(impl, results, u, line_at(u.pc))

\* one iteration of the loop from its top to the point where it either blocks
\* at a stop ("stopped") or has finished (state "running" or "done")
iteration(impl, results) ==
    iteration_from(impl, results, unwind(loop_pc, call_stack, Len(pre_result.logical)))

\* the number of session calls the iteration at pcv can make: one per part of
\* a composite line in the interactive runner, otherwise at most one
calls_for(impl, parts) == IF impl = "interactive" /\ Len(parts) > 1 THEN Len(parts) ELSE 1
calls_at(impl, pcv) ==
    IF pcv >= Len(pre_result.logical) THEN 0
    ELSE calls_for(impl, split_composite_command(line_at(pcv)))
calls_next(impl) ==
    calls_at(impl, unwind(loop_pc, call_stack, Len(pre_result.logical)).pc)

\* a top-level `call :sub` followed by the subroutine
\* `:sub / echo in / exit /b 7`
CallReturnScript ==
    << <<"c", "a", "l", "l", SP, ":", "s", "u", "b">>,
       <<"e", "c", "h", "o", SP, "o", "u", "t">>,
       <<":", "s", "u", "b">>,
       <<"e", "c", "h", "o", SP, "i", "n">>,
       <<"e", "x", "i", "t", SP, "/", "b", SP, "7">> >>

\* the scripts the interpreter is run on (physical lines)
RunScripts ==
    { CallReturnScript,
      << <<"a">>,
         <<"b">>,
         <<"c">> >>,
      << <<"S", "E", "T", "L", "O", "C", "A", "L">>,
         <<"S", "E", "T", SP, "A", "=", "1">>,
         <<"E", "N", "D", "L", "O", "C", "A", "L">> >>,
      << <<"a", SP, "&", "&", SP, "b">>,
         <<"a", SP, "|", "|", SP, "b", SP, "&", SP, "c">> >>,
      << <<"C", "A", "L", "L", SP, ":", "s", SP, "x">>,
         <<"a">>,
         <<"E", "X", "I", "T", SP, "/", "B">>,
         <<":", "s">>,
         <<"e", SP, "%", "1", SP, "&", "&", SP, "b">>,
         <<"E", "X", "I", "T", SP, "/", "B", SP, "7">> >>,
      << <<"R", "E", "M", SP, "x">>,
         <<>>,
         <<":", "l">>,
         <<"a">>,
         <<"G", "O", "T", "O", SP, "l">> >>,
      << <<"I", "F", SP, "x", SP, "(">>,
         <<"a">>,
         <<")">>,
         <<"b">> >>,
      << <<"G", "O", "T", "O", SP, ":", "E", "O", "F">> >>,
      << <<"a", SP, "^">>,
         <<"b">>,
         <<"G", "O", "T", "O", SP, "x">> >>,
      << <<":", "s">>,
         <<"C", "A", "L", "L", SP, ":", "s">> >>,
      << <<"C", "A", "L", "L", SP, ":", "a">>,
         <<"x">>,
         <<"E", "X", "I", "T", SP, "/", "B">>,
         <<":", "a">>,
         <<"C", "A", "L", "L", SP, ":", "b">>,
         <<"y">>,
         <<"E", "X", "I", "T", SP, "/", "B">>,
         <<":", "b">>,
         <<"z">>,
         <<"E", "X", "I", "T", SP, "/", "B", SP, "7">> >> }

\* history records written by an iteration
Reached(it) ==
    [pc |-> it.at, mode |-> mode, depth |-> it.depth,
     in_breakpoints |-> Breakpoints_contains(breakpoints, it.at),
     stopped |-> it.kind = "stopped", scope_line |-> it.kind = "undecided",
     first |-> last_reach = NoReach]
Resumed(m) == [mode |-> m, depth |-> Len(call_stack), pc |-> loop_pc]
Executed(pcv, o) ==
    [pc |-> pcv, line |-> line_at(pcv), parts |-> o.parts, issued |-> o.issued,
     end |-> o.end]

\* the writes of an iteration to the loop's locals and to the context
apply_outcome(o) ==
    /\ ~o.overflow
    /\ loop_pc' = o.pc
    /\ call_stack' = o.call_stack
    /\ variables' = o.variables
    /\ last_exit_code' = o.last_exit_code
    /\ run_end' = o.end

\* the writes of the rest of an iteration resumed at the line pcv
apply_dispatch(pcv, o) ==
    /\ apply_outcome(o)
    /\ run_state' = o.state
    /\ last_exec' = Executed(pcv, o)

\* the writes of an iteration `it` started at the top of the loop
apply_iteration(impl, it) ==
    /\ apply_outcome(it.out)
    /\ run_state' = IF impl = "dap" /\ it.kind = "stopped" THEN "stop_decided"
                    ELSE it.out.state
    /\ last_reach' = IF it.kind \in {"undecided", "stopped", "passed"}
                     THEN Reached(it) ELSE last_reach
    /\ last_exec' = IF it.kind \in {"undecided", "passed"}
                    THEN Executed(it.at, it.out) ELSE last_exec

runOthers == <<runner, labels_phys, preVars, sessVars, histVars, dapVars>>

\* run_debugger: one iteration up to the prompt or to the end of the iteration
IStep(results) ==
    /\ runner = "interactive"
    /\ run_state = "running"
    /\ apply_iteration("interactive", iteration("interactive", results))
    /\ UNCHANGED <<breakpoints, mode, step_out_target_depth, continue_requested, step_depth,
                   last_resume, runOthers>>

\* the commands of the prompt that resume the run (runner.rs:156-190)
PromptCommands == {"c", "n", "s", "o", ""}

\* run_debugger at the prompt: a resuming command, then the rest of the iteration
IPrompt(cmd, results) ==
    /\ runner = "interactive"
    /\ run_state = "stopped"
    /\ mode' = CASE cmd = "c" -> "Continue"
                 [] cmd = "n" -> "StepOver"
                 [] cmd \in {"s", ""} -> "StepInto"
                 [] cmd = "o" -> "StepOut"
    /\ step_out_target_depth' = IF cmd = "o" THEN saturating_sub_1(Len(call_stack))
                                ELSE step_out_target_depth
    /\ step_depth' = IF cmd = "n" THEN Len(call_stack) ELSE NoDepth
    /\ last_resume' = Resumed(mode')
    /\ last_reach' = NoReach
    /\ apply_dispatch(loop_pc, dispatch("interactive", loop_pc, call_stack, variables,
                                        last_exit_code, results))
    /\ UNCHANGED <<breakpoints, continue_requested, runOthers>>

\* run_debugger at the prompt: `b <line>` adds a breakpoint and prompts again
IBreak(logical_line) ==
    /\ runner = "interactive"
    /\ run_state = "stopped"
    /\ add_breakpoint(logical_line)

\* run_debugger at the prompt: `q` leaves the loop
IQuit ==
    /\ runner = "interactive"
    /\ run_state = "stopped"
    /\ run_state' = "done"
    /\ run_end' = "quit"
    /\ UNCHANGED <<loop_pc, step_depth, last_reach, last_resume, last_exec, ctxVars,
                   runOthers>>

\* run_debugger_dap: one iteration up to the stop decision, and through the
\* line when the decision is not to stop
DapStep(results) ==
    /\ runner = "dap"
    /\ run_state = "running"
    /\ apply_iteration("dap", iteration("dap", results))
    /\ UNCHANGED <<breakpoints, mode, step_out_target_depth, continue_requested, step_depth,
                   last_resume, runOthers>>

\* dap_runner.rs:83-93: entering the stop, in a lock acquisition of its own
DapEnterStop ==
    /\ runner = "dap"
    /\ run_state = "stop_decided"
    /\ continue_requested' = FALSE
    /\ run_state' = "waiting"
    /\ UNCHANGED <<variables, call_stack, last_exit_code, breakpoints, mode,
                   step_out_target_depth, loop_pc, step_depth, run_end, last_reach,
                   last_resume, last_exec, runOthers>>

\* DapWake as it would be if the poll consumed the flag
DapWake_mut_clears(results) ==
    /\ runner = "dap"
    /\ run_state = "waiting"
    /\ continue_requested
    /\ step_depth' = IF mode = "StepOver" THEN Len(call_stack) ELSE NoDepth
    /\ last_resume' = Resumed(mode)
    /\ last_reach' = NoReach
    /\ apply_dispatch(loop_pc, dispatch("dap", loop_pc, call_stack, variables,
                                        last_exit_code, results))
    /\ continue_requested' = FALSE
    /\ UNCHANGED <<breakpoints, mode, step_out_target_depth, runOthers>>

\* dap_runner.rs:107-133 and 137-249: the poll sees the flag, then the line runs
DapWake(results) ==
    /\ runner = "dap"
    /\ run_state = "waiting"
    /\ continue_requested
    /\ step_depth' = IF mode = "StepOver" THEN Len(call_stack) ELSE NoDepth
    /\ last_resume' = Resumed(mode)
    /\ last_reach' = NoReach
    /\ apply_dispatch(loop_pc, dispatch("dap", loop_pc, call_stack, variables,
                                        last_exit_code, results))
    /\ UNCHANGED <<breakpoints, mode, step_out_target_depth, continue_requested,
                   runOthers>>

\* dap_runner.rs:101-105: 6000 polls without a request
DapWaitTimeout ==
    /\ runner = "dap"
    /\ run_state = "waiting"
    /\ ~continue_requested
    /\ run_state' = "done"
    /\ run_end' = "wait_timeout"
    /\ UNCHANGED <<loop_pc, step_depth, last_reach, last_resume, last_exec, ctxVars,
                   runOthers>>

\* the coordinator serves requests while the interpreter thread is alive
DapServing == runner = "dap" /\ run_state \in {"running", "stop_decided", "waiting"}

\* handle_set_breakpoints installs a line (server.rs:506); handle_pause
\* (server.rs:725) sets StepInto
DapAddBreakpoint(logical_line) == DapServing /\ add_breakpoint(logical_line)
DapResume(command) == DapServing /\ DapStepRequest(command)
DapPause == DapServing /\ set_mode("StepInto")

\* the caller's context: run_debugger is entered with the breakpoints and the
\* mode the caller has set; handle_launch (server.rs:288-297) sets StepInto or
\* Continue on a new context and clears continue_requested
RunInitOn(scripts) ==
    /\ physical \in scripts
    /\ pre_pc = "done"
    /\ joined = join_continued_lines(physical)
    /\ logical = annotate_blocks(joined)
    /\ final_depth = annotate_run(joined).st.depth
    /\ pre_result = preprocess_lines(physical)
    /\ ~pre_result.panicked
    /\ cmd_line = <<>>
    /\ cmd_parts = <<>>
    /\ runner \in {"interactive", "dap"}
    /\ variables = EmptyMap
    /\ call_stack = <<>>
    /\ last_exit_code = 0
    /\ breakpoints \in IF runner = "interactive" THEN SUBSET BpLines ELSE {{}}
    /\ mode \in {"Continue", "StepInto"}
    /\ step_out_target_depth = 0
    /\ continue_requested = FALSE
    /\ bp_last_op = [l \in BpLines |-> IF l \in breakpoints THEN "add" ELSE "none"]
    /\ scope_phase = "none"
    /\ scope_snap = NoSnap
    /\ SessIdle
    /\ run_state = "running"
    /\ loop_pc = 0
    /\ step_depth = NoDepth
    /\ labels_phys = build_label_map(physical)
    /\ run_end = "none"
    /\ last_reach = NoReach
    /\ last_resume = NoResume
    /\ last_exec = NoExec
    /\ DapIdle

RunInit == RunInitOn(RunScripts)

RunNext ==
    \/ \E results \in ResultSeqs(calls_next("interactive")) : IStep(results)
    \/ \E cmd \in PromptCommands :
           \E results \in ResultSeqs(calls_at("interactive", loop_pc)) : IPrompt(cmd, results)
    \/ \E l \in BpLines : IBreak(l)
    \/ IQuit
    \/ \E results \in ResultSeqs(calls_next("dap")) : DapStep(results)
    \/ DapEnterStop
    \/ \E results \in ResultSeqs(calls_at("dap", loop_pc)) : DapWake(results)
    \/ DapWaitTimeout
    \/ \E l \in BpLines : DapAddBreakpoint(l)
    \/ \E c \in DapStepRequests : DapResume(c)
    \/ DapPause

SpecRun == RunInit /\ [][RunNext]_vars

\* the interpreter run on CallReturnScript
CallReturnInit == RunInit /\ physical = CallReturnScript
SpecCallReturn == CallReturnInit /\ [][RunNext]_vars

\* C2: in a run whose mode is Continue, the interpreter stops at a logical line
\* the program counter reaches if and only if that line is in the breakpoint
\* set
C2_StopsIffBreakpoint ==
    last_reach.mode = "Continue" => (last_reach.stopped <=> last_reach.in_breakpoints)

\* the parts issued follow the operators: part i (1-based) goes to the session
\* iff it is the first, or follows `&`, or follows `&&` with the previous exit
\* code 0, or follows `||` with a non-zero one; k parts have been issued so far
RECURSIVE C4_chain(_, _, _, _)
C4_chain(parts, issued, i, k) ==
    IF i > Len(parts) THEN k = Len(issued)
    ELSE IF \/ i = 1
            \/ parts[i - 1].op = "Unconditional"
            \/ parts[i - 1].op = "And" /\ issued[k].result.code = 0
            \/ parts[i - 1].op = "Or" /\ issued[k].result.code # 0
    THEN /\ k < Len(issued)
         /\ issued[k + 1].text = parts[i].text
         /\ C4_chain(parts, issued, i + 1, k + 1)
    ELSE C4_chain(parts, issued, i + 1, k)

\* C4: when the interpreter executes a logical line made of several parts, p2
\* of `p1 && p2` is issued to the session iff p1's exit code was 0, p2 of
\* `p1 || p2` iff it was non-zero, the first part and a part after `&` always,
\* in the interactive and in the DAP runner
C4_CompositeShortCircuit ==
    (/\ Len(last_exec.parts) >= 2
     /\ last_exec.end \notin {"io_error", "io_break"}
     /\ ~contains_char(last_exec.line, "%")
     /\ \A i \in 1 .. Len(last_exec.parts) : trim(last_exec.parts[i].text) # <<>>)
        => C4_chain(last_exec.parts, last_exec.issued, 1, 0)

\* C11: after StepOut is requested at a stop at call-stack depth d >= 1, the
\* interpreter does not stop at a line reached at depth >= d and stops at the
\* first line it reaches at depth <= d - 1
C11_StepOutStop ==
    (/\ last_resume.mode = "StepOut"
     /\ last_resume.depth >= 1
     /\ last_reach.mode = "StepOut")
        => (last_reach.stopped <=> last_reach.depth <= last_resume.depth - 1)

\* C12: after a resume under StepOver from a stop at call-stack depth d, the
\* interpreter does not stop at a line reached at depth > d and stops at the
\* first line it reaches at depth <= d
C12_StepOverStop ==
    (/\ last_resume.mode = "StepOver"
     /\ last_reach.mode = "StepOver")
        => (last_reach.stopped <=> last_reach.depth <= last_resume.depth)

\* the stop that follows a resume at <<pc, depth>> of CallReturnScript when the
\* interpreter stops at every line: the call line <<0, 0>>, the subroutine
\* <<3, 1>> and <<4, 1>>, then the line after the call <<1, 0>> and the fall
\* through into the subroutine's lines at depth 0
C13_next_stop(at) ==
    CASE at = <<0, 0>> -> <<3, 1>>
      [] at = <<3, 1>> -> <<4, 1>>
      [] at = <<4, 1>> -> <<1, 0>>
      [] at = <<1, 0>> -> <<3, 0>>
      [] at = <<3, 0>> -> <<4, 0>>
      [] OTHER -> <<0 - 1, 0 - 1>>

C13_stepping ==
    /\ physical = CallReturnScript
    /\ last_resume.mode = "StepInto"
    /\ last_reach.mode = "StepInto"
    /\ last_reach.first

\* C13 (amended): under StepInto on CallReturnScript the stops are, in order,
\* the call line, the subroutine's first executable line, the `exit /b 7` line
\* (still inside the frame), and after the return the instruction after the
\* call at depth 0; the run ends with last_exit_code 7
C13_StepIntoCallReturn ==
    /\ C13_stepping =>
           /\ last_reach.stopped
           /\ <<last_reach.pc, last_reach.depth>> =
                  C13_next_stop(<<last_resume.pc, last_resume.depth>>)
    /\ (physical = CallReturnScript /\ run_end = "exit") => last_exit_code = 7

C13_Witness ==
    /\ C13_stepping
    /\ <<last_resume.pc, last_resume.depth>> = <<4, 1>>
    /\ <<last_reach.pc, last_reach.depth>> = <<1, 0>>
    /\ call_stack = <<>>

\* C13 as stated: the stop that follows the stop at the subroutine's first
\* executable line is the instruction after the call
C13_StopsAsListed ==
    (C13_stepping /\ <<last_resume.pc, last_resume.depth>> = <<3, 1>>)
        => <<last_reach.pc, last_reach.depth>> = <<1, 0>>

(***************************************************************************)
(* build_label_map (src/parser/labels.rs) on its own.                      *)
(***************************************************************************)
\* label lines in both cases, with arguments and indentation, the reserved
\* name, a command, a lone colon and a `::` comment
LabelLines ==
    { <<":", "a">>,
      <<":", "A", SP, "x">>,
      <<SP, SP, ":", "a", SP>>,
      <<":", "b">>,
      <<":", "e", "o", "f">>,
      <<":", "E", "O", "F">>,
      <<"b">>,
      <<":">>,
      <<":", ":", "c">> }

MaxLabelLines == 3
LabelScripts == SeqsUpTo(LabelLines, MaxLabelLines)

LabelInit ==
    /\ physical \in LabelScripts
    /\ pre_pc = "input"
    /\ joined = <<>>
    /\ logical = <<>>
    /\ final_depth = 0
    /\ pre_result = NoResult
    /\ cmd_line = <<>>
    /\ cmd_parts = <<>>
    /\ CtxNew
    /\ HistNew
    /\ SessIdle
    /\ RunIdle

\* let labels = build_label_map(&physical_lines)
CallBuildLabelMap ==
    /\ pre_pc = "input"
    /\ labels_phys' = build_label_map(physical)
    /\ pre_pc' = "labels"
    /\ UNCHANGED <<physical, joined, logical, final_depth, pre_result, cmd_line, cmd_parts,
                   ctxVars, histVars, sessVars, runner, run_state, loop_pc, step_depth,
                   run_end, last_reach, last_resume, last_exec, dapVars>>

LabelNext == CallBuildLabelMap

SpecLabels == LabelInit /\ [][LabelNext]_vars

\* a label line, and the name it defines: the first whitespace-separated token
\* after the leading ':', in lower case
C14_is_label_line(l) == Len(trim(l)) > 1 /\ trim(l)[1] = ":"
C14_label_key(l) == to_lowercase(split_whitespace(Tail(trim(l)))[1])
C14_defines(p, k) ==
    /\ C14_is_label_line(physical[p + 1])
    /\ split_whitespace(Tail(trim(physical[p + 1]))) # <<>>
    /\ C14_label_key(physical[p + 1]) = k

\* C14: build_label_map maps the lower-cased first token after the ':' of
\* each label line to the physical index of the last definition of that label,
\* and `eof` is never a key of the map
C14_LabelMapLastWins ==
    pre_pc = "labels" =>
        /\ \A p \in 0 .. Len(physical) - 1 :
               \A k \in {C14_label_key(physical[q + 1]) :
                            q \in {r \in 0 .. Len(physical) - 1 :
                                      C14_is_label_line(physical[r + 1])
                                      /\ split_whitespace(Tail(trim(physical[r + 1]))) # <<>>}} :
                   (C14_defines(p, k) /\ \A q \in p + 1 .. Len(physical) - 1 : ~C14_defines(q, k))
                       => (k \in DOMAIN labels_phys /\ labels_phys[k] = p)
        /\ <<"e", "o", "f">> \notin DOMAIN labels_phys

(***************************************************************************)
(* split_composite_command (src/parser/commands.rs) on its own.            *)
(***************************************************************************)
MaxSplitLen == 4
SplitChars == {"a", "&", "|", "^", DQ, SP}
CompositeExample == <<"e", "c", "h", "o", SP, "A", SP, "&", SP, "e", "c", "h", "o", SP, "B", SP, "&", "&", SP, "e", "c", "h", "o", SP, "C">>
SplitLines == SeqsUpTo(SplitChars, MaxSplitLen) \cup {CompositeExample}

SplitInit ==
    /\ cmd_line \in SplitLines
    /\ cmd_parts = <<>>
    /\ physical = <<>>
    /\ pre_pc = "input"
    /\ joined = <<>>
    /\ logical = <<>>
    /\ final_depth = 0
    /\ pre_result = NoResult
    /\ CtxNew
    /\ HistNew
    /\ SessIdle
    /\ RunIdle

\* let parts = split_composite_command(&line)
CallSplit ==
    /\ pre_pc = "input"
    /\ cmd_parts' = split_composite_command(cmd_line)
    /\ pre_pc' = "split"
    /\ UNCHANGED <<cmd_line, physical, joined, logical, final_depth, pre_result, ctxVars,
                   histVars, sessVars, runVars>>

SplitNext == CallSplit

SpecSplit == SplitInit /\ [][SplitNext]_vars

\* the character at position i (1-based) is escaped: it follows a caret that
\* is not itself escaped
RECURSIVE C15_escaped(_, _)
C15_escaped(line, i) == i > 1 /\ line[i - 1] = "^" /\ ~C15_escaped(line, i - 1)

\* position i lies inside double quotes: an odd number of quotes that are not
\* escaped precede it
RECURSIVE C15_in_quotes(_, _)
C15_in_quotes(line, i) ==
    IF i <= 1 THEN FALSE
    ELSE IF line[i - 1] = DQ /\ ~C15_escaped(line, i - 1)
    THEN ~C15_in_quotes(line, i - 1)
    ELSE C15_in_quotes(line, i - 1)

C15_plain(line, i) == ~C15_escaped(line, i) /\ ~C15_in_quotes(line, i)

\* the operators of a line read from position i: `&&`, `||` and the lone `&`
\* that are outside quotes and not escaped
RECURSIVE C15_operators(_, _)
C15_operators(line, i) ==
    IF i > Len(line) THEN <<>>
    ELSE IF C15_plain(line, i) /\ line[i] = "&" /\ i < Len(line) /\ line[i + 1] = "&"
    THEN <<"And">> \o C15_operators(line, i + 2)
    ELSE IF C15_plain(line, i) /\ line[i] = "&"
    THEN <<"Unconditional">> \o C15_operators(line, i + 1)
    ELSE IF C15_plain(line, i) /\ line[i] = "|" /\ i < Len(line) /\ line[i + 1] = "|"
    THEN <<"Or">> \o C15_operators(line, i + 2)
    ELSE C15_operators(line, i + 1)

RECURSIVE C15_count(_, _)
C15_count(text, ch) ==
    IF text = <<>> THEN 0
    ELSE (IF text[1] = ch THEN 1 ELSE 0) + C15_count(Tail(text), ch)

RECURSIVE C15_count_in_parts(_, _)
C15_count_in_parts(parts, ch) ==
    IF parts = <<>> THEN 0
    ELSE C15_count(parts[1].text, ch) + C15_count_in_parts(Tail(parts), ch)

C15_count_op(ops, op) == Cardinality({k \in 1 .. Len(ops) : ops[k] = op})

\* C15: split_composite_command splits only at the `&`, `&&` and `||` that are
\* outside double quotes and not escaped by a caret; the operators of the parts
\* are those operators in order, followed by None on the final part; a `|` by
\* itself does not split and stays in the text; `echo A & echo B && echo C`
\* gives three parts with the operators Unconditional, And, None
C15_SplitsAtOperators ==
    pre_pc = "split" =>
        /\ IF trim(cmd_line) = <<>>
           THEN cmd_parts = <<>>
           ELSE [k \in 1 .. Len(cmd_parts) |-> cmd_parts[k].op]
                    = C15_operators(cmd_line, 1) \o <<"None">>
        /\ C15_count_in_parts(cmd_parts, "|")
               = C15_count(cmd_line, "|") - 2 * C15_count_op(C15_operators(cmd_line, 1), "Or")
        /\ cmd_line = CompositeExample =>
               cmd_parts = << CommandPart(<<"e", "c", "h", "o", SP, "A">>, "Unconditional"),
                              CommandPart(<<"e", "c", "h", "o", SP, "B">>, "And"),
                              CommandPart(<<"e", "c", "h", "o", SP, "C">>, "None") >>

(***************************************************************************)
(* Claims about track_set_command (checked under SpecScope)                *)
(***************************************************************************)
\* the text after `SET ` of a trimmed line, without the outer quotes of the
\* form SET "NAME=VALUE"
C16_after_set(line) == trim(slice_from(trim(line), 4))
C16_unquoted(body) ==
    IF Len(body) >= 2 /\ body[1] = DQ /\ body[Len(body)] = DQ
    THEN slice(body, 1, Len(body) - 1)
    ELSE body
C16_body(line) == C16_unquoted(C16_after_set(line))

\* a plain SET assignment: `SET`, then NAME=VALUE with a non-empty name, and
\* neither the /A nor the /P switch
C16_is_assignment(line) ==
    /\ starts_with(to_uppercase(trim(line)), <<"S", "E", "T", SP>>)
    /\ ~starts_with(to_uppercase(C16_after_set(line)), <<"/", "A">>)
    /\ ~starts_with(to_uppercase(C16_after_set(line)), <<"/", "P">>)
    /\ contains_char(C16_body(line), "=")
    /\ trim(slice(C16_body(line), 0, find_char(C16_body(line), "="))) # <<>>
C16_name(line) == trim(slice(C16_body(line), 0, find_char(C16_body(line), "=")))
C16_value(line) == trim(slice_from(C16_body(line), find_char(C16_body(line), "=") + 1))

C16_effect(line) ==
    IF C16_is_assignment(line)
    THEN IF call_stack # <<>> /\ Last(call_stack).has_setlocal
         THEN /\ variables' = variables
              /\ call_stack' =
                     [call_stack EXCEPT ![Len(call_stack)].locals =
                         map_insert(Last(call_stack).locals, C16_name(line), C16_value(line))]
         ELSE /\ variables' = map_insert(variables, C16_name(line), C16_value(line))
              /\ call_stack' = call_stack
    ELSE /\ variables' = variables
         /\ call_stack' = call_stack

C17_canonical(map) ==
    \A k1 \in DOMAIN map : \A k2 \in DOMAIN map :
        to_uppercase(k1) = to_uppercase(k2) => k1 = k2

\* C17: variable names are case-insensitive and stored canonically: after
\* assignments to one name written in different letter cases the map holds a
\* single entry for that name
C17_CanonicalNames ==
    /\ C17_canonical(variables)
    /\ \A i \in 1 .. Len(call_stack) : C17_canonical(call_stack[i].locals)

(***************************************************************************)
(* The DAP channels: the interpreter thread publishes output strings and   *)
(* stop events; handle_launch (src/dap/server.rs) and the run_dap_mode     *)
(* loop (src/dap/mod.rs) forward them to the editor.  The sends of the     *)
(* interpreter follow spec 4.6 and 5 (the run_debugger_dap of              *)
(* src/executor/dap_runner.rs takes no channel).                           *)
(***************************************************************************)
MaxStops == 2
MaxOutputs == 2

dapOthers ==
    <<variables, call_stack, last_exit_code, breakpoints, step_out_target_depth, histVars,
      preVars, sessVars, runner, run_state, loop_pc, step_depth, labels_phys, run_end,
      last_reach, last_resume, last_exec>>

\* an output string of a command executed after stop number `epoch`
OutputOf(epoch) == [type |-> "output", n |-> epoch]
StopEvent(n) == [type |-> "stopped", n |-> n]
TerminatedEvent == [type |-> "terminated", n |-> 0]

\* spec 4.6 step 4: the output of an executed part is streamed through the
\* output channel
InterpOutput ==
    /\ interp_pc = "running"
    /\ outputs_published < MaxOutputs
    /\ output_channel' = Append(output_channel, OutputOf(stops_published))
    /\ outputs_published' = outputs_published + 1
    /\ UNCHANGED <<event_channel, editor, coord_pc, coord_events, interp_pc, stops_published,
                   mode, continue_requested, dapOthers>>

\* spec 4.6 step 3: clear continue_requested, publish a stopped event, block
InterpStop ==
    /\ interp_pc = "running"
    /\ stops_published < MaxStops
    /\ continue_requested' = FALSE
    /\ event_channel' = Append(event_channel, StopEvent(stops_published + 1))
    /\ stops_published' = stops_published + 1
    /\ interp_pc' = "waiting"
    /\ UNCHANGED <<output_channel, editor, coord_pc, coord_events, outputs_published, mode,
                   dapOthers>>

\* spec 4.6 step 3: the block ends when continue_requested is true
InterpWake ==
    /\ interp_pc = "waiting"
    /\ continue_requested
    /\ interp_pc' = "running"
    /\ UNCHANGED <<output_channel, event_channel, editor, coord_pc, coord_events,
                   stops_published, outputs_published, mode, continue_requested, dapOthers>>

\* spec 4.6: upon program termination the interpreter emits `terminated`
InterpTerminate ==
    /\ interp_pc = "running"
    /\ event_channel' = Append(event_channel, TerminatedEvent)
    /\ interp_pc' = "done"
    /\ UNCHANGED <<output_channel, editor, coord_pc, coord_events, stops_published,
                   outputs_published, mode, continue_requested, dapOthers>>

\* handle_launch, server.rs:383-392: forward the output received so far
LaunchDrainOutput ==
    /\ coord_pc = "launch_output"
    /\ editor' = editor \o output_channel
    /\ output_channel' = <<>>
    /\ coord_pc' = "launch_wait"
    /\ UNCHANGED <<event_channel, coord_events, interp_pc, stops_published,
                   outputs_published, mode, continue_requested, dapOthers>>

\* handle_launch, server.rs:395-417: recv_timeout returns the first event
LaunchFirstEvent ==
    /\ coord_pc = "launch_wait"
    /\ event_channel # <<>>
    /\ editor' = Append(editor, Head(event_channel))
    /\ event_channel' = Tail(event_channel)
    /\ coord_pc' = "check_output"
    /\ UNCHANGED <<output_channel, coord_events, interp_pc, stops_published,
                   outputs_published, mode, continue_requested, dapOthers>>

\* handle_launch, server.rs:418-426: recv_timeout runs into its 2 s timeout
LaunchTimeout ==
    /\ coord_pc = "launch_wait"
    /\ event_channel = <<>>
    /\ coord_pc' = "check_output"
    /\ UNCHANGED <<output_channel, event_channel, editor, coord_events, interp_pc,
                   stops_published, outputs_published, mode, continue_requested, dapOthers>>

\* run_dap_mode, mod.rs:30-31: server.check_and_send_output()
\* (server.rs:741-751)
CheckAndSendOutput ==
    /\ coord_pc = "check_output"
    /\ editor' = editor \o output_channel
    /\ output_channel' = <<>>
    /\ coord_pc' = "poll_events"
    /\ UNCHANGED <<event_channel, coord_events, interp_pc, stops_published,
                   outputs_published, mode, continue_requested, dapOthers>>

\* run_dap_mode, mod.rs:35-40: the try_recv loop fills the local `events`
PollEvents ==
    /\ coord_pc = "poll_events"
    /\ coord_events' = event_channel
    /\ event_channel' = <<>>
    /\ coord_pc' = "send_events"
    /\ UNCHANGED <<output_channel, editor, interp_pc, stops_published, outputs_published,
                   mode, continue_requested, dapOthers>>

\* SendEvents as it would be if only stop events were forwarded
SendEvents_mut_drops ==
    /\ coord_pc = "send_events"
    /\ editor' = editor \o SelectSeq(coord_events, LAMBDA e : e.type = "stopped")
    /\ coord_events' = <<>>
    /\ coord_pc' = "read_message"
    /\ UNCHANGED <<output_channel, event_channel, interp_pc, stops_published,
                   outputs_published, mode, continue_requested, dapOthers>>

\* run_dap_mode, mod.rs:43-63: a stopped or terminated event per collected event
SendEvents ==
    /\ coord_pc = "send_events"
    /\ editor' = editor \o coord_events
    /\ coord_events' = <<>>
    /\ coord_pc' = "read_message"
    /\ UNCHANGED <<output_channel, event_channel, interp_pc, stops_published,
                   outputs_published, mode, continue_requested, dapOthers>>

\* run_dap_mode, mod.rs:66: try_read_message returns None
NoMessage ==
    /\ coord_pc = "read_message"
    /\ coord_pc' = "check_output"
    /\ UNCHANGED <<output_channel, event_channel, editor, coord_events, interp_pc,
                   stops_published, outputs_published, mode, continue_requested, dapOthers>>

\* run_dap_mode: a continue / next / stepIn / stepOut request is handled
\* (server.rs:673-720)
ResumeMessage(command) ==
    /\ coord_pc = "read_message"
    /\ mode' = CASE command = "continue" -> "Continue"
                 [] command = "next" -> "StepOver"
                 [] command = "stepIn" -> "StepInto"
                 [] command = "stepOut" -> "StepOut"
    /\ continue_requested' = TRUE
    /\ coord_pc' = "check_output"
    /\ UNCHANGED <<output_channel, event_channel, editor, coord_events, interp_pc,
                   stops_published, outputs_published, dapOthers>>

\* handle_launch after thread::spawn (server.rs:288-381): the context is new,
\* continue_requested is false and the interpreter thread runs
DapInit ==
    /\ PreIdle
    /\ CtxNew
    /\ HistNew
    /\ SessIdle
    /\ runner = "dap"
    /\ run_state = "idle"
    /\ loop_pc = 0
    /\ step_depth = NoDepth
    /\ labels_phys = <<>>
    /\ run_end = "none"
    /\ last_reach = NoReach
    /\ last_resume = NoResume
    /\ last_exec = NoExec
    /\ output_channel = <<>>
    /\ event_channel = <<>>
    /\ editor = <<>>
    /\ coord_pc = "launch_output"
    /\ coord_events = <<>>
    /\ interp_pc = "running"
    /\ stops_published = 0
    /\ outputs_published = 0

DapNext ==
    \/ InterpOutput
    \/ InterpStop
    \/ InterpWake
    \/ InterpTerminate
    \/ LaunchDrainOutput
    \/ LaunchFirstEvent
    \/ LaunchTimeout
    \/ CheckAndSendOutput
    \/ PollEvents
    \/ SendEvents
    \/ NoMessage
    \/ \E c \in DapStepRequests : ResumeMessage(c)

SpecDap == DapInit /\ [][DapNext]_vars

\* C18: in every interleaving of the interpreter thread and the coordinator,
\* every output produced between stop N and stop N+1 is delivered to the
\* editor before the stopped event of stop N+1: once that event is delivered no
\* such output is still in flight or delivered after it
C18_OutputBeforeStop ==
    \A p \in 1 .. Len(editor) :
        (editor[p].type = "stopped" /\ editor[p].n >= 2) =>
            /\ \A q \in 1 .. Len(output_channel) : output_channel[q].n # editor[p].n - 1
            /\ \A q \in p + 1 .. Len(editor) :
                   ~(editor[q].type = "output" /\ editor[q].n = editor[p].n - 1)

\* C19: a step that takes continue_requested to false is the interpreter
\* entering a stop (DapEnterStop), and a step that takes it to true is the
\* coordinator handling continue, next, stepIn or stepOut (DapResume); no other
\* step changes the flag
C19_FlagWriters ==
    [][/\ (continue_requested /\ ~continue_requested') => DapEnterStop
       /\ (~continue_requested /\ continue_requested') =>
              \E c \in DapStepRequests : DapResume(c)]_vars

\* the coordinator has set the flag, the interpreter has woken, and has
\* cleared the flag again on entering its next stop
C19_Witness ==
    /\ runner = "dap"
    /\ run_state = "waiting"
    /\ ~continue_requested
    /\ last_resume.mode # "none"

\* C20: while the interpreter is in a stop and has not seen continue_requested
\* true, no step moves it: no line is executed, nothing is sent to the session,
\* and the run does not end
C20_BlocksUntilContinue ==
    [][(runner = "dap" /\ run_state = "waiting" /\ ~continue_requested) =>
           /\ run_state' = "waiting"
           /\ run_end' = run_end
           /\ loop_pc' = loop_pc
           /\ last_exec' = last_exec
           /\ sessVars' = sessVars]_vars

(***************************************************************************)
(* The value run_debugger / run_debugger_dap return.                       *)
(***************************************************************************)
\* every `break 'run` falls to the `Ok(())` after the loop (runner.rs:386-390,
\* dap_runner.rs:252-253); only a `?` on a session result returns the error
run_returns ==
    CASE run_end = "none" -> "none"
      [] run_end = "io_error" -> "Err"
      [] OTHER -> "Ok"

\* scripts whose CALL / GOTO names a label that is not defined
UnknownLabelScripts ==
    { << <<"C", "A", "L", "L", SP, ":", "x">>,
         <<"a">> >>,
      << <<"a">>,
         <<"G", "O", "T", "O", SP, "x">>,
         <<"b">> >>,
      << <<"C", "A", "L", "L", SP, ":", "s">>,
         <<"G", "O", "T", "O", SP, "y">>,
         <<":", "s">>,
         <<"C", "A", "L", "L", SP, ":", "z">> >> }

UnknownLabelInit == RunInitOn(UnknownLabelScripts)
SpecUnknownLabel == UnknownLabelInit /\ [][RunNext]_vars

\* the call-stack depth at which the line executed last was reached
C21_depth_before ==
    IF last_reach = NoReach THEN last_resume.depth ELSE last_reach.depth

\* C21: a CALL or GOTO to a label missing from the label map ends the run at
\* once: no frame is pushed, nothing is sent to the session for that line or
\* after it, and the run reports a failure, not a successful completion
C21_UnknownLabelFatal ==
    run_end = "unknown_label" =>
        /\ run_state = "done"
        /\ Len(call_stack) = C21_depth_before
        /\ last_exec.issued = <<>>
        /\ run_returns = "Err"

\* the coordinator loop keeps running: each of its steps is taken when it stays
\* possible (the loop of run_dap_mode sleeps 10 ms and goes round again)
CoordFairness ==
    /\ WF_vars(LaunchDrainOutput)
    /\ WF_vars(LaunchFirstEvent \/ LaunchTimeout)
    /\ WF_vars(CheckAndSendOutput)
    /\ WF_vars(PollEvents)
    /\ WF_vars(SendEvents)
    /\ WF_vars(NoMessage \/ \E c \in DapStepRequests : ResumeMessage(c))

SpecDapFair == DapInit /\ [][DapNext]_vars /\ CoordFairness

C22_delivered == \E p \in 1 .. Len(editor) : editor[p].type = "terminated"

C23_StreamEndFails ==
    [][(/\ run_pc \in {"top", "read"}
        /\ run_pc' = "returned"
        /\ ~child_alive
        /\ child_stdout = <<>>) => run_result'.kind = "err"]_vars

(***************************************************************************)
(* setBreakpoints (src/dap/server.rs:451-520), on a launched session       *)
(***************************************************************************)
MaxReqLine == 4
MaxBpRequests == 2
MaxBpResponses == 1

\* the `line` values of the request's breakpoints array
BpRequests ==
    UNION {[1 .. n -> 0 .. MaxReqLine] : n \in 1 .. MaxBpRequests}

SetBpScripts ==
    { << <<"a">> >>,
      << <<"a">>,
         <<"b">>,
         <<"c">> >>,
      << <<"a", SP, "^">>,
         <<"b">>,
         <<"c">> >>,
      << <<"a">>,
         <<"b", SP, "^">>,
         <<"c">> >> }

\* server.rs:471-496: the loop over the requested lines from position i; acc
\* holds logical_lines and verified_breakpoints
RECURSIVE map_requested(_, _, _)
map_requested(lines, i, acc) ==
    IF i > Len(lines) THEN acc
    ELSE IF saturating_sub_1(lines[i]) < Len(pre_result.phys_to_logical)
    THEN map_requested(lines, i + 1,
             [logical_lines |->
                  Append(acc.logical_lines,
                         pre_result.phys_to_logical[saturating_sub_1(lines[i]) + 1]),
              verified_breakpoints |->
                  Append(acc.verified_breakpoints, [verified |-> TRUE, line |-> lines[i]])])
    ELSE map_requested(lines, i + 1, acc)

\* server.rs:501-509: ctx.add_breakpoint for each mapped line
RECURSIVE add_all(_, _)
add_all(points, logical_lines) ==
    IF logical_lines = <<>> THEN points
    ELSE add_all(Breakpoints_add(points, Head(logical_lines)), Tail(logical_lines))

\* the response (server.rs:511-519); request_lines is history: the lines asked
set_breakpoints_with(lines, m) ==
    /\ breakpoints' = add_all(breakpoints, m.logical_lines)
    /\ bp_last_op' = [l \in BpLines |->
                         IF \E k \in 1 .. Len(m.logical_lines) : m.logical_lines[k] = l
                         THEN "add" ELSE bp_last_op[l]]
    /\ editor' = Append(editor, [type |-> "response", command |-> "setBreakpoints",
                                 breakpoints |-> m.verified_breakpoints,
                                 request_lines |-> lines])

\* DapServer::handle_set_breakpoints, for at most `cap` requests
handle_set_breakpoints_upto(lines, cap) ==
    /\ Len(editor) < cap
    /\ set_breakpoints_with(lines, map_requested(lines, 1,
                                [logical_lines |-> <<>>, verified_breakpoints |-> <<>>]))
    /\ HistScopeReset
    /\ UNCHANGED <<variables, call_stack, last_exit_code, mode, step_out_target_depth,
                   continue_requested, preVars, sessVars, runner, run_state, loop_pc,
                   step_depth, labels_phys, run_end, last_reach, last_resume, last_exec,
                   output_channel, event_channel, coord_pc, coord_events, interp_pc,
                   stops_published, outputs_published>>

handle_set_breakpoints(lines) == handle_set_breakpoints_upto(lines, MaxBpResponses)

\* after handle_launch: the script is preprocessed and the context is new
SetBpInit ==
    /\ physical \in SetBpScripts
    /\ pre_pc = "done"
    /\ joined = join_continued_lines(physical)
    /\ logical = annotate_blocks(joined)
    /\ final_depth = annotate_run(joined).st.depth
    /\ pre_result = preprocess_lines(physical)
    /\ cmd_line = <<>>
    /\ cmd_parts = <<>>
    /\ CtxNew
    /\ HistNew
    /\ SessIdle
    /\ RunIdle

SetBpNext == \E lines \in BpRequests : handle_set_breakpoints(lines)

SpecSetBp == SetBpInit /\ [][SetBpNext]_vars

\* the requested lines that lie inside the script, in request order
C24_inside(lines) ==
    SelectSeq(lines, LAMBDA n : n >= 1 /\ n <= Len(physical))

\* the request is made of 1-based line numbers
C24_one_based(lines) == \A k \in 1 .. Len(lines) : lines[k] >= 1

\* the logical indices the claim says the request installs
C24_installed(lines) ==
    {pre_result.phys_to_logical[C24_inside(lines)[k]] : k \in 1 .. Len(C24_inside(lines))}

\* C24: a setBreakpoints request installs phys_to_logical[n - 1] for every
\* requested 1-based line n with n - 1 inside the script and answers with one
\* `verified: true` record for it; a requested line outside the script
\* installs nothing and gets no record
C24_SetBreakpointsMapped ==
    (\A p \in 1 .. Len(editor) : C24_one_based(editor[p].request_lines)) =>
        /\ \A p \in 1 .. Len(editor) :
               editor[p].breakpoints =
                   [k \in 1 .. Len(C24_inside(editor[p].request_lines)) |->
                       [verified |-> TRUE, line |-> C24_inside(editor[p].request_lines)[k]]]
        /\ breakpoints =
               UNION {C24_installed(editor[p].request_lines) : p \in 1 .. Len(editor)}

\* a request for line 3 and a line past the end of a three-line script whose
\* first two lines are joined has installed logical line 1 and got one record
C24_Witness ==
    /\ Len(physical) = 3
    /\ pre_result.phys_to_logical = <<0, 0, 1>>
    /\ editor # <<>>
    /\ editor[1].request_lines = <<3, 4>>
    /\ editor[1].breakpoints = <<[verified |-> TRUE, line |-> 3]>>
    /\ breakpoints = {1}

\* C25: in the DAP runner, a line reached in StepInto mode after the
\* interpreter was resumed in another mode (the mode was switched by a pause
\* request while it ran) is a stop, whatever the mode, captured depth or target
\* depth of the resume
C25_PauseStops ==
    (/\ runner = "dap"
     /\ last_reach.mode = "StepInto"
     /\ last_resume.mode \in {"Continue", "StepOver", "StepOut"})
        => last_reach.stopped

\* resumed by `next` at depth 0, paused inside the called subroutine: the stop
\* is at depth 1, where StepOver would have run on
C25_Witness ==
    /\ runner = "dap"
    /\ run_state = "waiting"
    /\ last_resume.mode = "StepOver"
    /\ last_resume.depth = 0
    /\ last_reach.mode = "StepInto"
    /\ last_reach.depth = 1
    /\ last_reach.stopped

\* the session calls of an executed line that returned Ok, and the code of the
\* last of them
C26_answered(e) == \E k \in 1 .. Len(e.issued) : e.issued[k].result.ok
C26_session_code(e) ==
    e.issued[CHOOSE k \in 1 .. Len(e.issued) :
                 /\ e.issued[k].result.ok
                 /\ \A j \in k + 1 .. Len(e.issued) : ~e.issued[j].result.ok].result.code
C26_is_exit_b(e) == starts_with(to_uppercase(e.line), KW_EXIT_B)
C26_exit_b_code(e) == unwrap_or_0(parse_i32(trim(slice_from(e.line, 7))))

FrameScripts ==
    { << <<"C", "A", "L", "L", SP, ":", "s">>,
         <<":", "s">>,
         <<"a">> >>,
      << <<"C", "A", "L", "L", SP, ":", "s">>,
         <<"C", "A", "L", "L", SP, ":", "t">>,
         <<"E", "X", "I", "T", SP, "/", "B">>,
         <<":", "s">>,
         <<"G", "O", "T", "O", SP, ":", "E", "O", "F">>,
         <<":", "t">>,
         <<"E", "X", "I", "T", SP, "/", "B", SP, "7">> >>,
      << <<"G", "O", "T", "O", SP, ":", "E", "O", "F">> >> }

FrameInit == RunInitOn(FrameScripts)
SpecFrames == FrameInit /\ [][RunNext]_vars

\* the step executes a line (history: last_exec is rewritten by every execution)
C27_executes == last_exec' # last_exec

\* the depth of the call stack when the line of this step was reached, after
\* the EOF unwinding at the top of the iteration
C27_depth == IF last_reach' = NoReach THEN Len(call_stack) ELSE last_reach'.depth

\* the executed line, as the runner classifies it
C27_upper == to_uppercase(last_exec'.line)
C27_is_call == starts_with(C27_upper, KW_CALL)
C27_is_leave ==
    \/ starts_with(C27_upper, KW_EXIT_B)
    \/ C27_upper = KW_GOTO_EOF

\* EOF unwinding from depth `from` down to depth `to`: the program counter was
\* past the last line, every frame popped on the way returned past the last
\* line too, and the pop that ended it set pc to its frame's return_pc
C27_unwound(from, to, pcv) ==
    from > to =>
        /\ loop_pc >= Len(pre_result.logical)
        /\ \A j \in to + 2 .. from : call_stack[j].return_pc >= Len(pre_result.logical)
        /\ pcv = call_stack[to + 1].return_pc

\* C27: EXIT /B, GOTO :EOF and running past the last logical line pop one
\* frame at a time and continue at its return_pc while the call stack is not
\* empty, and end the run successfully when it is; a CALL to a known label
\* pushes a frame with return_pc = pc + 1; nothing else changes the length of
\* the call stack
C27_FrameLifecycle ==
    [][/\ C27_executes =>
              /\ C27_unwound(Len(call_stack), C27_depth, last_exec'.pc)
              /\ C27_is_leave =>
                     IF C27_depth >= 1
                     THEN /\ call_stack' = SubSeq(call_stack, 1, C27_depth - 1)
                          /\ loop_pc' = call_stack[C27_depth].return_pc
                          /\ run_end' = "none"
                     ELSE /\ call_stack' = <<>>
                          /\ run_state' = "done"
                          /\ run_end' = "exit"
              /\ (C27_is_call /\ run_end' # "unknown_label") =>
                     /\ Len(call_stack') = C27_depth + 1
                     /\ SubSeq(call_stack', 1, C27_depth) = SubSeq(call_stack, 1, C27_depth)
                     /\ call_stack'[C27_depth + 1].return_pc = last_exec'.pc + 1
              /\ (~C27_is_leave /\ ~(C27_is_call /\ run_end' # "unknown_label")) =>
                     Len(call_stack') = C27_depth
       /\ ~C27_executes =>
              /\ Len(call_stack') <= Len(call_stack)
              /\ call_stack' = SubSeq(call_stack, 1, Len(call_stack'))
              /\ run_end' = "eof" =>
                     /\ call_stack' = <<>>
                     /\ loop_pc >= Len(pre_result.logical)
                     /\ \A j \in 1 .. Len(call_stack) :
                            call_stack[j].return_pc >= Len(pre_result.logical)
              /\ run_end' # "eof" =>
                     C27_unwound(Len(call_stack), Len(call_stack'),
                                 IF run_state' = "running" /\ run_state = "running"
                                 THEN loop_pc' - 1 ELSE loop_pc')]_vars

\* the subroutine entered by CALL has returned by GOTO :EOF and the second one
\* by EXIT /B 7; the run then ended at the top-level EXIT /B
C27_Witness ==
    /\ Len(physical) = 7
    /\ run_end = "exit"
    /\ call_stack = <<>>
    /\ last_exit_code = 0
    /\ loop_pc = 2

(***************************************************************************)
(* Blocks: IF and FOR lines that open a parenthesis                        *)
(***************************************************************************)
BlockScripts ==
    { << <<"I", "F", SP, "x", SP, "(">>,
         <<"a">>,
         <<")">>,
         <<"b">> >>,
      << <<"C", "A", "L", "L", SP, ":", "s", SP, "y">>,
         <<"b">>,
         <<":", "s">>,
         <<"F", "O", "R", SP, "%", "1", SP, "(">>,
         <<"c">>,
         <<")">> >> }

BlockInit == RunInitOn(BlockScripts)
SpecBlocks == BlockInit /\ [][RunNext]_vars

\* the block that starts at the logical line p, as runner.rs:296-301 collects it
C28_block(p) == collect_block(<<raw_at(p)>>, p + 1, paren_delta(raw_at(p)))
C28_starts_block(p) == is_block_start(raw_at(p), to_uppercase(line_at(p)))

\* p is one of the lines collected after the first line of some block
C28_collected(p) ==
    \E s \in 0 .. Len(pre_result.logical) - 1 :
        /\ C28_starts_block(s)
        /\ s < p
        /\ p < C28_block(s).block_pc

\* C28: an IF or FOR line with a positive paren delta is collected with the
\* lines after it up to the balance, the collected lines go to the session's
\* block execution exactly once, pc becomes the first line after the block,
\* and no collected line is stopped at or executed on its own
C28_BlockAsOne ==
    [][/\ (last_exec' # last_exec /\ C28_starts_block(last_exec'.pc)) =>
              /\ Len(last_exec'.issued) = 1
              /\ last_exec'.issued[1].call = "run_batch_block"
              /\ last_exec'.issued[1].text =
                     [k \in 1 .. Len(C28_block(last_exec'.pc).block_lines) |->
                         expand_in_frame(C28_block(last_exec'.pc).block_lines[k], call_stack')]
              /\ last_exec'.end = "none" => loop_pc' = C28_block(last_exec'.pc).block_pc
       /\ last_exec' # last_exec => ~C28_collected(last_exec'.pc)
       /\ (last_reach' # NoReach /\ last_reach'.stopped) => ~C28_collected(last_reach'.pc)]_vars

(***************************************************************************)
(* Lines the interpreter passes over                                       *)
(***************************************************************************)
SkipScripts ==
    { << <<"R", "E", "M", SP, "x">>,
         <<":", ":", "c">>,
         <<":", "l">>,
         <<"a">> >>,
      << <<"a">>,
         <<>>,
         <<"b">> >>,
      << <<"r", "e", "m", TAB, "y">>,
         <<"b">>,
         <<"R", "e", "m", SP, "z">> >> }

SkipInit == RunInitOn(SkipScripts)
SpecSkips == SkipInit /\ [][RunNext]_vars

\* a label definition line, a comment line or an empty line
C29_passed_over(raw) ==
    \/ is_comment(raw)
    \/ starts_with(trim(raw), <<":">>)

\* C29: in both runners the interpreter never stops at a label definition
\* line, a comment line or an empty line, and never sends one to the session
C29_NeverStopsNorSends ==
    /\ (last_reach # NoReach /\ last_reach.stopped) => ~C29_passed_over(raw_at(last_reach.pc))
    /\ last_exec # NoExec => ~C29_passed_over(raw_at(last_exec.pc))

(***************************************************************************)
(* The stop decision and the control-flow lines                            *)
(***************************************************************************)
ControlScripts ==
    { << <<"S", "E", "T", "L", "O", "C", "A", "L">>,
         <<"S", "E", "T", SP, "A", "=", "1">>,
         <<"E", "N", "D", "L", "O", "C", "A", "L">> >>,
      << <<"C", "A", "L", "L", SP, ":", "s">>,
         <<"G", "O", "T", "O", SP, "e">>,
         <<":", "s">>,
         <<"E", "X", "I", "T", SP, "/", "B">>,
         <<":", "e">> >> }

ControlInit == RunInitOn(ControlScripts)
SpecControl == ControlInit /\ [][RunNext]_vars

\* the line at p is one the runners dispatch themselves
C30_control(p) ==
    \/ starts_with(to_uppercase(line_at(p)), KW_SETLOCAL)
    \/ starts_with(to_uppercase(line_at(p)), KW_ENDLOCAL)
    \/ starts_with(to_uppercase(line_at(p)), KW_CALL)
    \/ starts_with(to_uppercase(line_at(p)), KW_EXIT_B)
    \/ starts_with(to_uppercase(line_at(p)), KW_GOTO)

\* the step reaches a line (history: last_reach is rewritten by every
\* iteration that gets to a line it does not skip)
C30_reaches == last_reach' # last_reach /\ last_reach' # NoReach

\* C30: a SETLOCAL, ENDLOCAL, CALL, EXIT /B or GOTO line reached under
\* StepInto, or under Continue with a breakpoint on it, is stopped at before
\* it takes any effect on the context or the session
C30_StopBeforeDispatch ==
    [][(/\ C30_reaches
        /\ C30_control(last_reach'.pc)
        /\ \/ last_reach'.mode = "StepInto"
           \/ last_reach'.mode = "Continue" /\ last_reach'.in_breakpoints) =>
           /\ last_reach'.stopped
           /\ last_exec' = last_exec
           /\ call_stack' = SubSeq(call_stack, 1, last_reach'.depth)
           /\ UNCHANGED <<variables, last_exit_code>>]_vars

(***************************************************************************)
(* The output CmdSession::run returns                                      *)
(***************************************************************************)
\* the line read_line is about to return, and the line the child writes (or
\* has written) after it, if any
C31_line == Head(child_stdout)
C31_following ==
    IF Len(child_stdout) >= 2 THEN <<child_stdout[2]>>
    ELSE IF child_pending # <<>> THEN <<Head(child_pending)>>
    ELSE <<>>

\* the blank line of the `echo.` that run itself submits before the sentinel
\* echo (session.rs:160): the blank line right before the sentinel line
C31_forced_blank ==
    /\ sess_impl = "debugger"
    /\ C31_line = BlankLine
    /\ \/ C31_following = <<>>
       \/ C31_following[1].sentinel

\* C31: every line the child wrote for the command before the sentinel line,
\* blank lines and the lines after a blank line included, is appended to the
\* output in the order read and with its line terminator
C31_OutputKeepsEveryLine ==
    [][(/\ run_pc = "read"
        /\ child_stdout # <<>>
        /\ child_stdout' = Tail(child_stdout)
        /\ C31_line.utf8
        /\ ~C31_line.sentinel
        /\ ~C31_forced_blank) =>
           output' = output \o C31_line.text]_vars

(***************************************************************************)
(* The two runners on the same line                                        *)
(***************************************************************************)
EquivScripts ==
    { << <<"a", SP, "&", "&", SP, "b">>,
         <<"c">> >>,
      << <<"C", "A", "L", "L", SP, ":", "s", SP, "x">>,
         <<"G", "O", "T", "O", SP, ":", "E", "O", "F">>,
         <<":", "s">>,
         <<"e", SP, "%", "1">> >>,
      << <<"I", "F", SP, "x", SP, "(">>,
         <<"a">>,
         <<")">> >> }

EquivInit == RunInitOn(EquivScripts)
SpecEquiv == EquivInit /\ [][RunNext]_vars

\* the run is at a stop on a line that both runners hand to their dispatch
\* after the stop decision
C32_at_dispatch ==
    /\ run_state \in {"stopped", "waiting"}
    /\ loop_pc < Len(pre_result.logical)
    /\ before_decision("interactive", line_at(loop_pc), to_uppercase(line_at(loop_pc)))
           = "decide"
    /\ before_decision("dap", line_at(loop_pc), to_uppercase(line_at(loop_pc))) = "decide"
    /\ ~starts_with(to_uppercase(line_at(loop_pc)), KW_SETLOCAL)
    /\ ~starts_with(to_uppercase(line_at(loop_pc)), KW_ENDLOCAL)

\* two outcomes of a dispatch agree on pc, on the call stack, on whether the
\* run goes on, and on the commands sent to the session
C32_same(oi, od) ==
    /\ oi.pc = od.pc
    /\ oi.call_stack = od.call_stack
    /\ oi.state = od.state
    /\ [k \in 1 .. Len(oi.issued) |-> <<oi.issued[k].call, oi.issued[k].text>>]
           = [k \in 1 .. Len(od.issued) |-> <<od.issued[k].call, od.issued[k].text>>]

\* C32: from the same pc, call stack and session results, the dispatch of
\* the DAP runner and the dispatch of the interactive runner make the same pc
\* and call-stack transition and send the same commands to the session
C32_SameDispatch ==
    C32_at_dispatch =>
        \A results \in ResultSeqs(calls_at("interactive", loop_pc)) :
            C32_same(dispatch("interactive", loop_pc, call_stack, variables,
                              last_exit_code, results),
                     dispatch("dap", loop_pc, call_stack, variables, last_exit_code,
                              results))

(***************************************************************************)
(* Block annotation and quoted parentheses                                 *)
(***************************************************************************)
\* the count the claim describes, over one line: parentheses count only
\* outside double quotes and not directly after a caret; d is the number of
\* open parentheses (clamped at zero), ids the open group ids, next the next id
RECURSIVE C33_scan(_, _, _, _, _)
C33_scan(text, k, in_quotes, escaped, st) ==
    IF k > Len(text) THEN st
    ELSE IF escaped THEN C33_scan(text, k + 1, in_quotes, FALSE, st)
    ELSE IF text[k] = "^" THEN C33_scan(text, k + 1, in_quotes, TRUE, st)
    ELSE IF text[k] = DQ THEN C33_scan(text, k + 1, ~in_quotes, FALSE, st)
    ELSE IF ~in_quotes /\ text[k] = "(" THEN
        C33_scan(text, k + 1, in_quotes, FALSE,
                 [d |-> st.d + 1, ids |-> Append(st.ids, st.next), next |-> st.next + 1])
    ELSE IF ~in_quotes /\ text[k] = ")" THEN
        C33_scan(text, k + 1, in_quotes, FALSE,
                 [d |-> IF st.d > 0 THEN st.d - 1 ELSE 0,
                  ids |-> IF st.ids = <<>> THEN <<>> ELSE Front(st.ids),
                  next |-> st.next])
    ELSE C33_scan(text, k + 1, in_quotes, FALSE, st)

\* the count before the joined line n (1-based)
RECURSIVE C33_before(_, _)
C33_before(js, n) ==
    IF n = 1 THEN [d |-> 0, ids |-> <<>>, next |-> 1]
    ELSE C33_scan(js[n - 1].text, 1, FALSE, FALSE, C33_before(js, n - 1))

\* C33: group_depth of each logical line is the number of still-open
\* unquoted, unescaped `(` of the lines before it, and its group id the
\* innermost of those: a parenthesis inside double quotes or directly after a
\* caret changes neither
C33_QuotedParensIgnored ==
    pre_pc \in {"annotated", "done", "panic"} =>
        \A n \in 1 .. Len(logical) :
            /\ logical[n].group_depth = C33_before(joined, n).d
            /\ logical[n].group_id = IF C33_before(joined, n).ids = <<>> THEN 0
                                     ELSE Last(C33_before(joined, n).ids)

\* C34: every part split_composite_command returns has non-empty trimmed
\* text, the last part carries op = None and every earlier part an operator
C34_PartsWellFormed ==
    pre_pc = "split" =>
        /\ \A k \in 1 .. Len(cmd_parts) : trim(cmd_parts[k].text) # <<>>
        /\ cmd_parts # <<>> => Last(cmd_parts).op = "None"
        /\ \A k \in 1 .. Len(cmd_parts) - 1 : cmd_parts[k].op # "None"

(***************************************************************************)
(* What a call of run reads after an earlier call timed out                *)
(***************************************************************************)
\* the session on a child all of whose lines can be decoded: no call ends on
\* a read error, so a call that returns before its sentinel line has returned
\* through the timeout path (session.rs:176-181) or at the end of the stream
DecodableBodies == {b \in ChildBodies : \A k \in 1 .. Len(b) : b[k].utf8}
StaleNext ==
    \/ \E cmd \in SessCmds, body \in DecodableBodies, code \in ExitCodes :
           SessRun(cmd, body, code)
    \/ ChildWrite
    \/ ChildDies
    \/ TimePasses
    \/ LoopTop
    \/ ReadLine
    \/ ReadEof
SpecStale == SessInit /\ [][StaleNext]_vars

\* the number of sentinel lines among the lines s
RECURSIVE C35_sentinels(_)
C35_sentinels(s) ==
    IF s = <<>> THEN 0
    ELSE (IF Head(s).sentinel THEN 1 ELSE 0) + C35_sentinels(Tail(s))

\* the lines the child still has to deliver after the one being read; the
\* child answers the commands in the order submitted, so the answer to the
\* current call is the last one in this stream
C35_after_this == Tail(child_stdout) \o child_pending

\* C35: what run returns comes only from its own command: the sentinel line
\* it returns on is the one written for this call (no later sentinel is still
\* to come), and a line it appends to the output is not followed by the
\* sentinel of an earlier command
C35_OwnCommandOnly ==
    [][(run_pc = "read" /\ child_stdout # <<>> /\ child_stdout' = Tail(child_stdout)) =>
           /\ (run_pc' = "returned" /\ run_result'.path = "sentinel") =>
                  C35_sentinels(C35_after_this) = 0
           /\ output' # output => C35_sentinels(C35_after_this) <= 1]_vars

(***************************************************************************)
(* Requests made while the interpreter is not yet waiting                  *)
(***************************************************************************)
\* a request that no wake has consumed: the flag is set and the mode is one
\* that only a continue, next or stepOut request sets and that differs from
\* the mode read at the last wake (history: last_resume)
C36_unconsumed ==
    /\ continue_requested
    /\ mode \in {"Continue", "StepOver", "StepOut"}
    /\ mode # last_resume.mode

\* C36: the clearing of continue_requested on entering a stop never erases a
\* request that has not been consumed: such a request is still set when the
\* interpreter starts to wait, so that it leaves the stop because of it
C36_RequestNeverLost ==
    [][(/\ runner = "dap"
        /\ run_state = "stop_decided"
        /\ run_state' = "waiting"
        /\ C36_unconsumed) => continue_requested']_vars

(***************************************************************************)
(* Launch without stop on entry, and the configuration that follows        *)
(***************************************************************************)
ConfigScripts ==
    { << <<"a">>,
         <<"b">>,
         <<"c">> >>,
      << <<"C", "A", "L", "L", SP, ":", "s">>,
         <<"b">>,
         <<":", "s">>,
         <<"E", "X", "I", "T", SP, "/", "B">> >> }

\* handle_launch with stopOnEntry = false (server.rs:288-375): mode Continue,
\* no breakpoint, and the interpreter thread already spawned
ConfigInit ==
    /\ RunInitOn(ConfigScripts)
    /\ runner = "dap"
    /\ mode = "Continue"

ConfigurationDoneResponse == [type |-> "response", command |-> "configurationDone"]

\* the coordinator has answered configurationDone (history: editor)
configured == \E p \in 1 .. Len(editor) : editor[p] = ConfigurationDoneResponse

\* run_dap_mode on a configurationDone request (mod.rs:95-97): the response
\* and nothing else
ConfigurationDone ==
    /\ runner = "dap"
    /\ ~configured
    /\ editor' = Append(editor, ConfigurationDoneResponse)
    /\ UNCHANGED <<ctxVars, histVars, preVars, sessVars, runner, run_state, loop_pc,
                   step_depth, labels_phys, run_end, last_reach, last_resume, last_exec,
                   output_channel, event_channel, coord_pc, coord_events, interp_pc,
                   stops_published, outputs_published>>

ConfigNext ==
    \/ \E results \in ResultSeqs(calls_next("dap")) : DapStep(results)
    \/ DapEnterStop
    \/ \E results \in ResultSeqs(calls_at("dap", loop_pc)) : DapWake(results)
    \/ DapWaitTimeout
    \/ \E l \in BpLines : DapAddBreakpoint(l)
    \/ \E c \in DapStepRequests : DapResume(c)
    \/ DapPause
    \/ ConfigurationDone

SpecConfig == ConfigInit /\ [][ConfigNext]_vars

\* C37: after a launch with stopOnEntry = false the interpreter has sent no
\* script line to the session when a breakpoint requested during the
\* configuration (before configurationDone) is installed, so that the
\* breakpoint is in force the first time the program counter reaches its line
C37_ConfiguredBeforeRunning ==
    [][(/\ runner = "dap"
        /\ ~configured
        /\ breakpoints' # breakpoints) => last_exec = NoExec]_vars

(***************************************************************************)
(* Successive setBreakpoints requests                                      *)
(***************************************************************************)
MaxBpReplaces == 2
ReplaceNext == \E lines \in BpRequests : handle_set_breakpoints_upto(lines, MaxBpReplaces)
SpecReplace == SetBpInit /\ [][ReplaceNext]_vars

\* the logical lines a request maps to
C38_mapped(lines) ==
    LET m == map_requested(lines, 1, [logical_lines |-> <<>>, verified_breakpoints |-> <<>>])
    IN  {m.logical_lines[k] : k \in 1 .. Len(m.logical_lines)}

\* C38: after each setBreakpoints request the breakpoint set is the set of
\* logical lines mapped from that request: a line installed by an earlier
\* request and omitted from the latest one is no longer a breakpoint
C38_LatestRequestOnly ==
    editor # <<>> => breakpoints = C38_mapped(editor[Len(editor)].request_lines)

(***************************************************************************)
(* Indexing: pc, return_pc, label targets and physical spans               *)
(***************************************************************************)
IndexScripts ==
    { << <<"G", "O", "T", "O", SP, "m">>,
         <<":", "s">>,
         <<"E", "X", "I", "T", SP, "/", "B">>,
         <<":", "m">>,
         <<"a", SP, "^">>,
         <<"b">>,
         <<"C", "A", "L", "L", SP, ":", "s">> >>,
      << <<"a">>,
         <<"b", SP, "^">>,
         <<"c">> >>,
      << <<"C", "A", "L", "L", SP, ":", "s">>,
         <<"E", "X", "I", "T", SP, "/", "B">>,
         <<":", "s">>,
         <<"E", "X", "I", "T", SP, "/", "B">> >> }

IndexInit == RunInitOn(IndexScripts)
SpecIndex == IndexInit /\ [][RunNext]_vars

\* C39: in every interpreter state the line fetched lies inside the script,
\* every frame's return_pc lies in 1 .. number of logical lines, every label's
\* physical index is an index of phys_to_logical, and every logical line's
\* phys_end is below the number of physical lines
C39_IndexingInRange ==
    /\ last_reach # NoReach => last_reach.pc < Len(pre_result.logical)
    /\ last_exec # NoExec => last_exec.pc < Len(pre_result.logical)
    /\ run_state \in {"stopped", "stop_decided", "waiting"} =>
           loop_pc < Len(pre_result.logical)
    /\ \A j \in 1 .. Len(call_stack) :
           call_stack[j].return_pc \in 1 .. Len(pre_result.logical)
    /\ \A k \in DOMAIN labels_phys :
           labels_phys[k] \in 0 .. Len(pre_result.phys_to_logical) - 1
    /\ \A n \in 1 .. Len(pre_result.logical) :
           /\ pre_result.logical[n].phys_start <= pre_result.logical[n].phys_end
           /\ pre_result.logical[n].phys_end < Len(physical)

\* the CALL on the last logical line has pushed a frame that returns past the
\* end of the script, and the line joined from two physical lines has run
C39_Witness ==
    /\ Len(physical) = 7
    /\ Len(call_stack) = 1
    /\ call_stack[1].return_pc = Len(pre_result.logical)
    /\ loop_pc < Len(pre_result.logical)
    /\ pre_result.logical[5].phys_end = 5
    /\ last_exec.pc = 5

(***************************************************************************)
(* SETLOCAL inside SETLOCAL                                                *)
(***************************************************************************)
\* a subroutine that opens a scope, sets A, opens a second scope, sets B,
\* closes it, sets C and closes the first scope
NestScript ==
    << <<"C", "A", "L", "L", SP, ":", "s">>,
      <<"G", "O", "T", "O", SP, ":", "E", "O", "F">>,
      <<":", "s">>,
      <<"S", "E", "T", "L", "O", "C", "A", "L">>,
      <<"S", "E", "T", SP, "A", "=", "1">>,
      <<"S", "E", "T", "L", "O", "C", "A", "L">>,
      <<"S", "E", "T", SP, "B", "=", "2">>,
      <<"E", "N", "D", "L", "O", "C", "A", "L">>,
      <<"S", "E", "T", SP, "C", "=", "3">>,
      <<"E", "N", "D", "L", "O", "C", "A", "L">> >>

NestInit == RunInitOn({NestScript})
SpecNest == NestInit /\ [][RunNext]_vars

\* the line at logical index p has been executed last, without a failure
C40_after(p) == last_exec # NoExec /\ last_exec.pc = p /\ last_exec.end = "none"

\* C40: SETLOCAL scopes nest within one frame: after SETLOCAL, SET A=1,
\* SETLOCAL, SET B=2, ENDLOCAL the frame is still inside a local scope, A is
\* visible and B is not; a following SET goes to the frame's locals and not to
\* the global map; the ENDLOCAL matching the first SETLOCAL leaves the scope
C40_ScopesNest ==
    /\ C40_after(7) =>
           /\ in_local_scope(call_stack)
           /\ <<"A">> \in DOMAIN get_visible_variables
           /\ <<"B">> \notin DOMAIN get_visible_variables
    /\ C40_after(8) =>
           /\ in_local_scope(call_stack)
           /\ <<"C">> \in DOMAIN Last(call_stack).locals
           /\ <<"C">> \notin DOMAIN variables
    /\ C40_after(9) => ~in_local_scope(call_stack)

====
